---- MODULE Spec2Model ----
(***************************************************************************)
(* gitpick: repository scoring and analytics.                              *)
(*                                                                         *)
(* The scoring functions of src/utils/analytics.ts compute with JavaScript *)
(* numbers, i.e. IEEE 754 binary64.  The weights 0.3, 0.2 and 0.15 are not *)
(* representable in binary, so the module carries a small software model   *)
(* of binary64 (non-negative finite values, round to nearest, ties to      *)
(* even) and evaluates every arithmetic expression of the source with it,  *)
(* in the order the source evaluates it.                                   *)
(*                                                                         *)
(* Time is counted in whole seconds: GitHub timestamps have a resolution   *)
(* of one second, and every use the source makes of a time difference is   *)
(* a quotient ms / (1000 * k), whose correctly rounded value is that of    *)
(* seconds / k.                                                            *)
(***************************************************************************)
EXTENDS Integers, Sequences, FiniteSets, TLC

\* A field that may be null holds NULL or Some(x); x is then field[1].
NULL == <<>>
Some(x) == <<x>>

Min(a, b) == IF a <= b THEN a ELSE b

RECURSIVE GCD(_, _)
GCD(a, b) == IF b = 0 THEN a ELSE GCD(b, a % b)

(***************************************************************************)
(* Unbounded naturals as little-endian sequences of 14-bit limbs, so that  *)
(* every intermediate product stays below 2^31.                            *)
(***************************************************************************)
LimbBits == 7 + 7
Limb == 2 ^ LimbBits

RECURSIVE BigNorm(_)
BigNorm(s) ==
    IF s = <<>> THEN <<>>
    ELSE IF s[Len(s)] = 0 THEN BigNorm(SubSeq(s, 1, Len(s) - 1))
    ELSE s

RECURSIVE BigFromInt(_)
BigFromInt(k) ==
    IF k = 0 THEN <<>> ELSE <<k % Limb>> \o BigFromInt(k \div Limb)

RECURSIVE BigToInt(_)
BigToInt(s) ==
    IF s = <<>> THEN 0 ELSE s[1] + Limb * BigToInt(Tail(s))

RECURSIVE MulCarry(_, _, _)
MulCarry(s, k, c) ==
    IF s = <<>> THEN BigFromInt(c)
    ELSE LET v == s[1] * k + c
         IN  <<v % Limb>> \o MulCarry(Tail(s), k, v \div Limb)

\* s * k for a natural k < 2^17
BigMulSmall(s, k) == BigNorm(MulCarry(s, k, 0))

RECURSIVE AddCarry(_, _, _)
AddCarry(a, b, c) ==
    IF a = <<>> /\ b = <<>> THEN BigFromInt(c)
    ELSE LET x == IF a = <<>> THEN 0 ELSE a[1]
             y == IF b = <<>> THEN 0 ELSE b[1]
             v == x + y + c
         IN  <<v % Limb>> \o AddCarry(IF a = <<>> THEN <<>> ELSE Tail(a),
                                      IF b = <<>> THEN <<>> ELSE Tail(b),
                                      v \div Limb)

BigAdd(a, b) == BigNorm(AddCarry(a, b, 0))

\* quotient (not normalised) and remainder of s by a natural 0 < n < 2^17
RECURSIVE DivRem(_, _)
DivRem(s, n) ==
    IF s = <<>> THEN [q |-> <<>>, r |-> 0]
    ELSE LET hi  == DivRem(Tail(s), n)
             cur == hi.r * Limb + s[1]
         IN  [q |-> <<cur \div n>> \o hi.q, r |-> cur % n]

BigDivSmall(s, n) == BigNorm(DivRem(s, n).q)

RECURSIVE BitLenInt(_)
BitLenInt(k) == IF k = 0 THEN 0 ELSE 1 + BitLenInt(k \div 2)

BitLen(s) ==
    IF s = <<>> THEN 0 ELSE LimbBits * (Len(s) - 1) + BitLenInt(s[Len(s)])

\* s * 2^k
BigShl(s, k) ==
    IF s = <<>> THEN <<>>
    ELSE [i \in 1..(k \div LimbBits) |-> 0] \o BigMulSmall(s, 2 ^ (k % LimbBits))

\* floor(s / 2^k), and whether a non-zero bit was shifted out
BigShrSticky(s, k) ==
    LET d    == Min(k \div LimbBits, Len(s))
        rest == SubSeq(s, d + 1, Len(s))
        dr   == DivRem(rest, 2 ^ (k % LimbBits))
    IN  [q      |-> BigNorm(dr.q),
         sticky |-> dr.r # 0 \/ \E i \in 1..d : s[i] # 0]

(***************************************************************************)
(* binary64.  A value is [m, e] standing for m * 2^e, with m = <<>> for    *)
(* zero and otherwise a 53-bit significand.  RoundNearestEven is the       *)
(* rounding every IEEE operation ends with: the exact result is            *)
(* (n + d) * 2^e with 0 <= d < 1 and d > 0 exactly when sticky.            *)
(***************************************************************************)
Precision == 52 + 1

FZero == [m |-> <<>>, e |-> 0]

RoundNearestEven(n, e, sticky) ==
    LET len == BitLen(n) IN
    IF len = 0 THEN FZero
    ELSE IF len <= Precision
    THEN [m |-> BigShl(n, Precision - len), e |-> e - (Precision - len)]
    ELSE LET s     == len - Precision
             t     == BigShrSticky(n, s - 1)
             h     == DivRem(t.q, 2)
             q     == BigNorm(h.q)
             up    == h.r = 1 /\ (t.sticky \/ sticky \/ q[1] % 2 = 1)
             r     == IF up THEN BigAdd(q, <<1>>) ELSE q
         IN  IF BitLen(r) > Precision
             THEN [m |-> BigDivSmall(r, 2), e |-> e + s + 1]
             ELSE [m |-> r, e |-> e + s]

\* the double of a natural number
FFromInt(k) == RoundNearestEven(BigFromInt(k), 0, FALSE)

\* x * k for a double x and a natural k < 2^17
FMulInt(x, k) == RoundNearestEven(BigMulSmall(x.m, k), x.e, FALSE)

\* x / n for a double x and a natural 0 < n < 2^17
FDivInt(x, n) ==
    IF x.m = <<>> THEN FZero
    ELSE LET dr == DivRem(<<0, 0, 0>> \o x.m, n)
         IN  RoundNearestEven(BigNorm(dr.q), x.e - 3 * LimbBits, dr.r # 0)

\* a / b for naturals a and b > 0.  IEEE division is correctly rounded, so
\* the quotient is determined by the rational a / b, taken in lowest terms.
FDiv(a, b) ==
    LET g == GCD(a, b) IN FDivInt(FFromInt(a \div g), b \div g)

\* x + y
FAdd(x, y) ==
    IF x.m = <<>> THEN y
    ELSE IF y.m = <<>> THEN x
    ELSE LET hi == IF x.e >= y.e THEN x ELSE y
             lo == IF x.e >= y.e THEN y ELSE x
         IN  RoundNearestEven(BigAdd(BigShl(hi.m, hi.e - lo.e), lo.m), lo.e, FALSE)

\* Math.floor(x)
MathFloor(x) ==
    IF x.m = <<>> THEN 0
    ELSE IF x.e >= 0 THEN BigToInt(BigShl(x.m, x.e))
    ELSE BigToInt(BigShrSticky(x.m, 0 - x.e).q)

\* Math.ceil(x)
MathCeil(x) ==
    IF x.m = <<>> THEN 0
    ELSE IF x.e >= 0 THEN BigToInt(BigShl(x.m, x.e))
    ELSE LET t == BigShrSticky(x.m, 0 - x.e)
         IN  BigToInt(t.q) + (IF t.sticky THEN 1 ELSE 0)

\* Math.round(x): the integer nearest to x, a tie going up
MathRound(x) ==
    IF x.m = <<>> THEN 0
    ELSE IF x.e >= 0 THEN BigToInt(BigShl(x.m, x.e))
    ELSE (BigToInt(BigShrSticky(x.m, (0 - x.e) - 1).q) + 1) \div 2

(***************************************************************************)
(* Configuration (config.ts)                                               *)
(***************************************************************************)
ACTIVITY_THRESHOLDS ==
    [VERY_ACTIVE |-> 7, ACTIVE |-> 30, MODERATE |-> 90, INACTIVE |-> 180]

\* the literals 0.2, 0.3 and 0.15 denote the doubles nearest to them
SCORE_WEIGHTS ==
    [STARS             |-> FDiv(2, 10),
     ACTIVITY          |-> FDiv(3, 10),
     ISSUES            |-> FDiv(15, 100),
     CONTRIBUTING      |-> FDiv(15, 100),
     GOOD_FIRST_ISSUES |-> FDiv(2, 10)]

\* 1000 * 60 * 60 * 24 ms and 1000 * 60 * 60 ms, in seconds
SecPerDay == 60 * 60 * 24
SecPerHour == 60 * 60

(***************************************************************************)
(* Metric functions (utils/analytics.ts)                                   *)
(***************************************************************************)
\* as calculateActivityScore, the 30-day limit taken inclusively
calculateActivityScore_Inclusive(lastActivityDays) ==
    IF lastActivityDays = NULL THEN 0
    ELSE IF lastActivityDays[1] < ACTIVITY_THRESHOLDS.VERY_ACTIVE THEN 10
    ELSE IF lastActivityDays[1] <= ACTIVITY_THRESHOLDS.ACTIVE THEN 8
    ELSE IF lastActivityDays[1] < ACTIVITY_THRESHOLDS.MODERATE THEN 5
    ELSE IF lastActivityDays[1] < ACTIVITY_THRESHOLDS.INACTIVE THEN 3
    ELSE 1

calculateActivityScore(lastActivityDays) ==
    IF lastActivityDays = NULL THEN 0
    ELSE IF lastActivityDays[1] < ACTIVITY_THRESHOLDS.VERY_ACTIVE THEN 10
    ELSE IF lastActivityDays[1] < ACTIVITY_THRESHOLDS.ACTIVE THEN 8
    ELSE IF lastActivityDays[1] < ACTIVITY_THRESHOLDS.MODERATE THEN 5
    ELSE IF lastActivityDays[1] < ACTIVITY_THRESHOLDS.INACTIVE THEN 3
    ELSE 1

\* as calculateStarsScore, the limit of 5000 stars mistyped as 500
calculateStarsScore_Limit(stars) ==
    IF stars < 10 THEN 1
    ELSE IF stars < 50 THEN 3
    ELSE IF stars < 100 THEN 4
    ELSE IF stars < 500 THEN 6
    ELSE IF stars < 1000 THEN 7
    ELSE IF stars < 500 THEN 8
    ELSE IF stars < 10000 THEN 9
    ELSE 10

\* as calculateStarsScore, the scores of two neighbouring bands exchanged
calculateStarsScore_Swapped(stars) ==
    IF stars < 10 THEN 1
    ELSE IF stars < 50 THEN 3
    ELSE IF stars < 100 THEN 6
    ELSE IF stars < 500 THEN 4
    ELSE IF stars < 1000 THEN 7
    ELSE IF stars < 5000 THEN 8
    ELSE IF stars < 10000 THEN 9
    ELSE 10

calculateStarsScore(stars) ==
    IF stars < 10 THEN 1
    ELSE IF stars < 50 THEN 3
    ELSE IF stars < 100 THEN 4
    ELSE IF stars < 500 THEN 6
    ELSE IF stars < 1000 THEN 7
    ELSE IF stars < 5000 THEN 8
    ELSE IF stars < 10000 THEN 9
    ELSE 10

\* as calculateIssuesScore, the good-first component not capped at 5
calculateIssuesScore_NoCap(openIssues, goodFirstIssues) ==
    LET goodFirstScore == goodFirstIssues * 2
        openIssuesScore ==
            IF openIssues < 10 THEN 5
            ELSE IF openIssues < 50 THEN 4
            ELSE IF openIssues < 100 THEN 3
            ELSE IF openIssues < 500 THEN 2
            ELSE 1
    IN  Min(goodFirstScore + openIssuesScore, 10)

calculateIssuesScore(openIssues, goodFirstIssues) ==
    LET goodFirstScore == Min(goodFirstIssues * 2, 5)
        openIssuesScore ==
            IF openIssues < 10 THEN 5
            ELSE IF openIssues < 50 THEN 4
            ELSE IF openIssues < 100 THEN 3
            ELSE IF openIssues < 500 THEN 2
            ELSE 1
    IN  Min(goodFirstScore + openIssuesScore, 10)

\* as OverallSum, the good-first-issue volume not capped at 10
OverallSum_NoCap(repoData) ==
    LET activityScore == calculateActivityScore(repoData.lastActivity)
        starsScore == calculateStarsScore(repoData.stars)
        issuesScore == calculateIssuesScore(repoData.openIssues,
                                            Len(repoData.goodFirstIssues))
        contributingScore == IF repoData.hasContributing THEN 10 ELSE 0
        goodFirstIssuesScore == Len(repoData.goodFirstIssues) * 2
    IN  FAdd(FAdd(FAdd(FAdd(FMulInt(SCORE_WEIGHTS.ACTIVITY, activityScore),
                            FMulInt(SCORE_WEIGHTS.STARS, starsScore)),
                       FMulInt(SCORE_WEIGHTS.ISSUES, issuesScore)),
                  FMulInt(SCORE_WEIGHTS.CONTRIBUTING, contributingScore)),
             FMulInt(SCORE_WEIGHTS.GOOD_FIRST_ISSUES, goodFirstIssuesScore))

\* as OverallSum, a point added for a record that carries pull request
\* statistics
OverallSum_WithStats(repoData) ==
    LET activityScore == calculateActivityScore(repoData.lastActivity)
        starsScore == calculateStarsScore(repoData.stars)
        issuesScore == calculateIssuesScore(repoData.openIssues,
                                            Len(repoData.goodFirstIssues))
        contributingScore == IF repoData.hasContributing THEN 10 ELSE 0
        goodFirstIssuesScore == Min(Len(repoData.goodFirstIssues) * 2, 10)
        bonus == IF "prStats" \in DOMAIN repoData THEN 1 ELSE 0
    IN  FAdd(FAdd(FAdd(FAdd(FMulInt(SCORE_WEIGHTS.ACTIVITY, activityScore + bonus),
                            FMulInt(SCORE_WEIGHTS.STARS, starsScore)),
                       FMulInt(SCORE_WEIGHTS.ISSUES, issuesScore)),
                  FMulInt(SCORE_WEIGHTS.CONTRIBUTING, contributingScore)),
             FMulInt(SCORE_WEIGHTS.GOOD_FIRST_ISSUES, goodFirstIssuesScore))

\* the weighted sum of lines 71-76, before rounding
OverallSum(repoData) ==
    LET activityScore == calculateActivityScore(repoData.lastActivity)
        starsScore == calculateStarsScore(repoData.stars)
        issuesScore == calculateIssuesScore(repoData.openIssues,
                                            Len(repoData.goodFirstIssues))
        contributingScore == IF repoData.hasContributing THEN 10 ELSE 0
        goodFirstIssuesScore == Min(Len(repoData.goodFirstIssues) * 2, 10)
    IN  FAdd(FAdd(FAdd(FAdd(FMulInt(SCORE_WEIGHTS.ACTIVITY, activityScore),
                            FMulInt(SCORE_WEIGHTS.STARS, starsScore)),
                       FMulInt(SCORE_WEIGHTS.ISSUES, issuesScore)),
                  FMulInt(SCORE_WEIGHTS.CONTRIBUTING, contributingScore)),
             FMulInt(SCORE_WEIGHTS.GOOD_FIRST_ISSUES, goodFirstIssuesScore))

\* Math.round(x * 10) / 10
RoundToTenth(x) == FDiv(MathRound(FMulInt(x, 10)), 10)

calculateOverallScore(repoData) == RoundToTenth(OverallSum(repoData))

(***************************************************************************)
(* Latency aggregators (utils/analytics.ts): the computation each makes on *)
(* the data of one attempt.  A pull request is [created_at, merged_at],    *)
(* merged_at being NULL when it was closed without a merge.  An issue is   *)
(* [created_at, comments, listComments]: comments is the comment count the *)
(* issue list reports and listComments the response to the request for the *)
(* issue's first comment, its data being the creation times of the         *)
(* comments returned (at most one, per_page being 1).                      *)
(* A response is [ok, status, data]: a failure carries the HTTP status, a  *)
(* success the data.                                                       *)
(***************************************************************************)
Failure(status) == [ok |-> FALSE, status |-> status, data |-> <<>>]
Success(data) == [ok |-> TRUE, status |-> 200, data |-> data]

\* the outcome of a callback that threw the error of a failed request
Thrown(status) == [thrown |-> TRUE, status |-> status]
Threw(ret) == "thrown" \in DOMAIN ret

\* reduce((a, b) => a + b, 0)
RECURSIVE SumSeq(_)
SumSeq(xs) ==
    IF xs = <<>> THEN FZero
    ELSE FAdd(SumSeq(SubSeq(xs, 1, Len(xs) - 1)), xs[Len(xs)])

PRStatsCallback(closedPRs) ==
    LET mergedPRs == SelectSeq(closedPRs, LAMBDA pr : pr.merged_at # NULL)
        mergeTimes == [i \in 1..Len(mergedPRs) |->
                          FDiv(mergedPRs[i].merged_at[1] - mergedPRs[i].created_at,
                               SecPerDay)]
        avgMergeTime == FDivInt(SumSeq(mergeTimes), Len(mergeTimes))
    IN  IF Len(mergedPRs) = 0
        THEN [avgMergeTime |-> NULL, mergedCount |-> 0]
        ELSE [avgMergeTime |-> Some(RoundToTenth(avgMergeTime)),
              mergedCount |-> Len(mergedPRs)]

\* the issues of the sample whose first comment is fetched
Commented(recentIssues) ==
    SelectSeq(recentIssues, LAMBDA issue : issue.comments > 0)

IssueStatsCallback(recentIssues) ==
    LET responded == SelectSeq(Commented(recentIssues),
                               LAMBDA issue : Len(issue.listComments.data) > 0)
        responseTimes == [i \in 1..Len(responded) |->
                             FDiv(responded[i].listComments.data[1]
                                     - responded[i].created_at, SecPerHour)]
        avgResponseTime == FDivInt(SumSeq(responseTimes), Len(responseTimes))
        failing == SelectSeq(Commented(recentIssues),
                             LAMBDA issue : ~issue.listComments.ok)
    IN  IF Len(failing) > 0
        THEN Thrown(failing[1].listComments.status)
        ELSE IF Len(responseTimes) = 0
        THEN [avgResponseTime |-> NULL, responseRate |-> 0]
        ELSE [avgResponseTime |-> Some(RoundToTenth(avgResponseTime)),
              responseRate |->
                  MathRound(FMulInt(FDiv(Len(responseTimes), Len(recentIssues)),
                                    100))]

(***************************************************************************)
(* Retrying (utils/retry.ts, config.ts)                                    *)
(***************************************************************************)
DEFAULT_CONFIG ==
    [cacheTTL |-> 3600000, retryAttempts |-> 3, retryDelay |-> 1000]

\* as NON_RETRYABLE_STATUS_CODES, 422 left out
NON_RETRYABLE_STATUS_CODES_No422 == {401, 404}

NON_RETRYABLE_STATUS_CODES == {401, 404, 422}

\* the HTTP statuses a failing request answers with in this model
ErrorStatuses == {404, 500}

(***************************************************************************)
(* Bounds and inputs                                                       *)
(***************************************************************************)
MaxDays == 200
MaxStars == 10001
MaxOpenIssues == 501
MaxGoodFirst == 6
MaxPRs == 2
MaxIssues == 4

\* one representative of every class the metric functions distinguish
ActivityInputs == {NULL, Some(5), Some(7), Some(30), Some(90), Some(180)}
StarsInputs == {0, 10, 50, 200, 500, 1000, 5000, 10000}
OpenIssuesInputs == {5, 10, 50, 100, 500}

\* the sequences over S of length at most n
SeqUpTo(S, n) == UNION {[1..k -> S] : k \in 0..n}

\* placeholders for the entries of a good-first-issue list of length g
IssueList(g) == [i \in 1..g |-> i]

PRInputs ==
    {pr \in [created_at : {0, 600},
             merged_at : {NULL, Some(600), Some(95040), Some(2 * SecPerDay),
                          Some(4 * SecPerDay)}] :
        pr.merged_at = NULL \/ pr.merged_at[1] >= pr.created_at}

IssueInputs ==
    {[created_at |-> 0, comments |-> 0, listComments |-> Success(<<>>)]}
    \cup [created_at : {0}, comments : {2},
          listComments : {Failure(500), Success(<<>>), Success(<<180>>),
                          Success(<<SecPerHour>>), Success(<<7380>>),
                          Success(<<3 * SecPerHour>>)}]

\* the clock, and the author dates a latest commit may carry (NULL: none)
Now == 400 * SecPerDay
CommitDates == {NULL, Some(Now), Some(Now - (30 * SecPerDay - 1)),
                Some(Now - 30 * SecPerDay), Some(Now + SecPerHour)}

(***************************************************************************)
(* State                                                                   *)
(***************************************************************************)
VARIABLES
    pc,                    \* the statement analyzeRepo is at
    attempt,               \* the attempt counter of the current withRetry
    repo,                  \* the search result being analysed
    enableAdvancedStats,   \* the caller's flag
    lastCommitDays, issues, hasContributing, hasCodeOfConductFile,
    contributorsCount, prStats,      \* locals of analyzeRepo
    analysis,              \* the record under construction
    requested,             \* the API endpoints this analyzeRepo has requested
    lastResponse,          \* the answer to the latest request
    caught,                \* the functions whose catch block has run
    repos, repoIndex, results,       \* main: the search results, i, results
    argv, env,             \* main: the parsed arguments, GITHUB_TOKEN
    answers,               \* main: the answers given at the prompt of search mode
    console,               \* what has been printed, in order
    effects,               \* the requests and commands that act on GitHub,
                           \* the browser or the disk, in order
    starred,               \* whether the user has starred the repository
    call,                  \* the last direct call of a function
    returned,              \* the direct calls that have returned, in order
    files, clock,          \* the cache directory by file name, Date.now()
    writes, dropped,       \* the last setCache of a search; the searches
                           \* whose entry a read has since found expired
    maxAttempts, initialDelay, invocations, waits, settled, lastError
                           \* retryWithBackoff: its arguments, the calls of fn
                           \* made, the delays slept, its result, lastError

vars == <<pc, attempt, repo, enableAdvancedStats, lastCommitDays, issues,
          hasContributing, hasCodeOfConductFile, contributorsCount, prStats,
          analysis, requested, lastResponse, caught, repos, repoIndex, results,
          argv, env, answers, console, effects, starred, call, returned, files, clock, writes, dropped, maxAttempts,
          initialDelay, invocations, waits, settled, lastError>>

mainVars == <<argv, env, answers, console, effects, starred>>

runVars == <<repos, repoIndex, results, mainVars>>

callVars == <<call, returned>>

cacheVars == <<files, clock, writes, dropped>>

retryVars == <<maxAttempts, initialDelay, invocations, waits, settled, lastError>>

otherVars == <<callVars, cacheVars, retryVars>>

analyzeVars == <<pc, attempt, repo, enableAdvancedStats, lastCommitDays, issues,
                 hasContributing, hasCodeOfConductFile, contributorsCount,
                 prStats, analysis, requested, lastResponse, caught, runVars>>

NoCall == [fn |-> "none", arg |-> NULL, ret |-> NULL]

(***************************************************************************)
(* Direct calls of the metric functions and of the aggregators' callbacks: *)
(* the initial state draws the function and its arguments, the action      *)
(* applies the function.  call.ret is NULL until the call has returned and *)
(* Some(value) afterwards.                                                 *)
(***************************************************************************)
Pending(fn, arg) == [fn |-> fn, arg |-> arg, ret |-> NULL]

MetricCalls ==
    {Pending("calculateActivityScore", [lastActivityDays |-> d]) :
        d \in {NULL} \cup {Some(n) : n \in (0 - 2)..MaxDays}}
    \cup
    {Pending("calculateStarsScore", [stars |-> n]) : n \in 0..MaxStars}
    \cup
    {Pending("calculateIssuesScore", a) :
        a \in [openIssues : 0..MaxOpenIssues, goodFirstIssues : 0..MaxGoodFirst]}
    \cup
    {Pending("calculateOverallScore", [repoData |-> r]) :
        r \in [lastActivity : ActivityInputs, stars : StarsInputs,
               openIssues : OpenIssuesInputs,
               goodFirstIssues : {IssueList(g) : g \in 0..MaxGoodFirst},
               hasContributing : BOOLEAN]}
    \cup
    {Pending("getPRStats", [closedPRs |-> prs]) :
        prs \in SeqUpTo(PRInputs, MaxPRs)}
    \cup
    {Pending("getIssueResponseStats", [recentIssues |-> is]) :
        is \in SeqUpTo(IssueInputs, MaxIssues)}

\* main has not been entered
MainIdle ==
    /\ argv = NULL
    /\ env = NULL
    /\ answers = NULL
    /\ console = <<>>
    /\ effects = <<>>
    /\ starred = FALSE

\* no repository is being analysed
AnalyzeIdle ==
    /\ pc = "idle"
    /\ attempt = 1
    /\ repo = NULL
    /\ enableAdvancedStats = FALSE
    /\ lastCommitDays = NULL
    /\ issues = NULL
    /\ hasContributing = NULL
    /\ hasCodeOfConductFile = NULL
    /\ contributorsCount = NULL
    /\ prStats = NULL
    /\ analysis = NULL
    /\ requested = {}
    /\ lastResponse = NULL
    /\ caught = {}
    /\ repos = <<>>
    /\ repoIndex = 0
    /\ results = <<>>
    /\ MainIdle

\* an empty cache directory
CacheIdle ==
    /\ files = [path \in {} |-> <<>>]
    /\ clock = 0
    /\ writes = [search \in {} |-> <<>>]
    /\ dropped = {}

\* retryWithBackoff entered with its arguments
RetryEntered(attempts, delays) ==
    /\ maxAttempts \in attempts
    /\ initialDelay \in delays
    /\ invocations = 0
    /\ waits = <<>>
    /\ settled = NULL
    /\ lastError = NULL

RetryIdle ==
    RetryEntered({DEFAULT_CONFIG.retryAttempts}, {DEFAULT_CONFIG.retryDelay})

InitCalls(calls) ==
    /\ AnalyzeIdle
    /\ call \in calls
    /\ returned = <<>>
    /\ CacheIdle
    /\ RetryIdle

InitMetrics == InitCalls(MetricCalls)

Return(value) ==
    /\ call.ret = NULL
    /\ call' = [call EXCEPT !.ret = Some(value)]
    /\ returned' = Append(returned, [call EXCEPT !.ret = Some(value)])
    /\ UNCHANGED <<analyzeVars, cacheVars, retryVars>>

CallActivityScore ==
    /\ call.fn = "calculateActivityScore"
    /\ Return(calculateActivityScore(call.arg.lastActivityDays))

CallStarsScore ==
    /\ call.fn = "calculateStarsScore"
    /\ Return(calculateStarsScore(call.arg.stars))

CallIssuesScore ==
    /\ call.fn = "calculateIssuesScore"
    /\ Return(calculateIssuesScore(call.arg.openIssues, call.arg.goodFirstIssues))

\* as CallOverallScore, the score counting the calls that went before
CallOverallScore_Counting ==
    /\ call.fn = "calculateOverallScore"
    /\ Return(IF returned = <<>> THEN calculateOverallScore(call.arg.repoData)
              ELSE FFromInt(Len(returned)))

CallOverallScore ==
    /\ call.fn = "calculateOverallScore"
    /\ Return(calculateOverallScore(call.arg.repoData))

CallPRStats ==
    /\ call.fn = "getPRStats"
    /\ Return(PRStatsCallback(call.arg.closedPRs))

CallIssueResponseStats ==
    /\ call.fn = "getIssueResponseStats"
    /\ Return(IssueStatsCallback(call.arg.recentIssues))

NextMetrics ==
    \/ CallActivityScore
    \/ CallStarsScore
    \/ CallIssuesScore
    \/ CallOverallScore
    \/ CallPRStats
    \/ CallIssueResponseStats

SpecMetrics == InitMetrics /\ [][NextMetrics]_vars

\* Calls in sequence: once a call has returned, the caller makes another
MaxCalls == 3

RepeatCalls ==
    {Pending("calculateOverallScore", [repoData |-> r]) :
        r \in [lastActivity : {Some(5)}, stars : {200}, openIssues : {5},
               goodFirstIssues : {IssueList(3)}, hasContributing : BOOLEAN]}
    \cup
    {Pending("calculateActivityScore", [lastActivityDays |-> Some(5)]),
     Pending("calculateStarsScore", [stars |-> 200]),
     Pending("calculateIssuesScore", [openIssues |-> 5, goodFirstIssues |-> 3]),
     Pending("getPRStats",
             [closedPRs |-> <<[created_at |-> 0, merged_at |-> Some(SecPerDay)]>>]),
     Pending("getIssueResponseStats",
             [recentIssues |-> <<[created_at |-> 0, comments |-> 2,
                                  listComments |-> Success(<<SecPerHour>>)]>>])}

CallAgain ==
    /\ call.ret # NULL
    /\ Len(returned) < MaxCalls
    /\ call' \in RepeatCalls
    /\ UNCHANGED <<analyzeVars, returned, cacheVars, retryVars>>

NextRepeat ==
    \/ NextMetrics
    \/ CallAgain

SpecRepeat == InitCalls(RepeatCalls) /\ [][NextRepeat]_vars

(***************************************************************************)
(* analyzeRepo and the loop of main over the search results (index.ts).    *)
(* Every request goes through withRetry; one action is one attempt of the  *)
(* request the function is waiting for, together with the statements that  *)
(* follow it up to the next request.                                       *)
(***************************************************************************)
Failures == {Failure(st) : st \in ErrorStatuses}

\* retryWithBackoff rethrows: a status that is never retried, or the last attempt
GivesUp(response) ==
    \/ response.status \in NON_RETRYABLE_STATUS_CODES
    \/ attempt = DEFAULT_CONFIG.retryAttempts

\* retryWithBackoff sleeps and calls fn again
Retry ==
    /\ attempt' = attempt + 1
    /\ UNCHANGED <<pc, repo, enableAdvancedStats, lastCommitDays, issues,
                   hasContributing, hasCodeOfConductFile, contributorsCount,
                   prStats, analysis, caught, otherVars, runVars>>

\* the catch block of fn runs when its request has failed for good
Catch(fn, response) == IF response.ok THEN caught ELSE caught \cup {fn}

\* Math.floor((Date.now() - lastCommitDate.getTime()) / (1000 * 60 * 60 * 24))
DaysSince(date) ==
    IF Now >= date THEN MathFloor(FDiv(Now - date, SecPerDay))
    ELSE 0 - MathCeil(FDiv(date - Now, SecPerDay))

RepoInputs == {[stargazers_count |-> 0, open_issues_count |-> 60],
               [stargazers_count |-> 200, open_issues_count |-> 5]}

\* the search results of a run: one repository, or the two in either order
RunInputs == {<<r>> : r \in RepoInputs}
RunOfTwo == {<<r, s>> : r, s \in RepoInputs} \ {<<r, r>> : r \in RepoInputs}

\* the answers of the API in this model
CommitResponses ==
    Failures \cup {Success(<<>>)} \cup {Success(<<[date |-> d]>>) : d \in CommitDates}
GoodFirstResponses == Failures \cup {Success(IssueList(g)) : g \in {0, 3}}
ContentResponses == Failures \cup {Success(<<>>)}
ContributorResponses == Failures \cup {Success(<<>>), Success(<<1>>)}
PRResponses ==
    Failures \cup {Success(<<>>),
                   Success(<<[created_at |-> 0, merged_at |-> Some(2 * SecPerDay)],
                             [created_at |-> 0, merged_at |-> NULL],
                             [created_at |-> 0, merged_at |-> Some(4 * SecPerDay)]>>)}
IssueResponses ==
    Failures \cup {Success(<<>>)}
    \cup {Success(<<[created_at |-> 0, comments |-> 2, listComments |-> c],
                    [created_at |-> 0, comments |-> 0, listComments |-> Success(<<>>)],
                    [created_at |-> 0, comments |-> 1,
                     listComments |-> Success(<<3 * SecPerHour>>)]>>) :
            c \in Failures \cup {Success(<<>>), Success(<<SecPerHour>>)}}

\* the answers followed for a request: all of them in a run over one
\* repository; in a run over several, a refusal and one success; in search
\* mode, one success
Answers(S) ==
    IF Len(repos) = 1 THEN S
    ELSE IF answers = NULL THEN {Failure(404), CHOOSE response \in S : response.ok}
    ELSE {CHOOSE response \in S : response.ok}

\* the answers followed for the latest commit; in search mode a refusal, a
\* commit within the last 30 days and one of 30 days ago
CommitAnswers ==
    IF answers = NULL THEN Answers(CommitResponses)
    ELSE {Failure(404), Success(<<[date |-> Some(Now - (30 * SecPerDay - 1))]>>),
          Success(<<[date |-> Some(Now - 30 * SecPerDay)]>>)}

\* the locals of a call of analyzeRepo before its first statement
Enter(r) ==
    /\ repo' = r
    /\ pc' = "listCommits"
    /\ attempt' = 1
    /\ lastCommitDays' = NULL
    /\ issues' = NULL
    /\ hasContributing' = NULL
    /\ hasCodeOfConductFile' = NULL
    /\ contributorsCount' = NULL
    /\ prStats' = NULL
    /\ analysis' = NULL
    /\ requested' = {}
    /\ lastResponse' = NULL
    /\ caught' = {}

InitRun(runs) ==
    /\ repos \in runs
    /\ repoIndex = 1
    /\ results = <<>>
    /\ MainIdle
    /\ repo = repos[1]
    /\ enableAdvancedStats \in BOOLEAN
    /\ pc = "listCommits"
    /\ attempt = 1
    /\ lastCommitDays = NULL
    /\ issues = NULL
    /\ hasContributing = NULL
    /\ hasCodeOfConductFile = NULL
    /\ contributorsCount = NULL
    /\ prStats = NULL
    /\ analysis = NULL
    /\ requested = {}
    /\ lastResponse = NULL
    /\ caught = {}
    /\ call = NoCall
    /\ returned = <<>>
    /\ CacheIdle
    /\ RetryIdle

Init == InitRun(RunInputs)

\* lines 448-466: null in the catch block and for an empty page, otherwise
\* the whole days since commit.author?.date || Date.now()
LastCommitDays(response) ==
    IF ~response.ok \/ Len(response.data) = 0 THEN NULL
    ELSE LET date == response.data[1].date
         IN  Some(DaysSince(IF date = NULL THEN Now ELSE date[1]))

\* lines 448-466: the latest commit
FetchLastCommit ==
    /\ pc = "listCommits"
    /\ requested' = requested \cup {"repos.listCommits"}
    /\ \E response \in CommitAnswers :
          /\ lastResponse' = response
          /\ IF ~response.ok /\ ~GivesUp(response) THEN Retry
             ELSE /\ lastCommitDays' = LastCommitDays(response)
                  /\ caught' = Catch("analyzeRepo", response)
                  /\ pc' = "goodFirstIssues"
                  /\ attempt' = 1
                  /\ UNCHANGED <<repo, enableAdvancedStats, issues,
                                 hasContributing, hasCodeOfConductFile,
                                 contributorsCount, prStats, analysis, otherVars,
                                 runVars>>

\* lines 469, 393-413: getGoodFirstIssues
GetGoodFirstIssues ==
    /\ pc = "goodFirstIssues"
    /\ requested' = requested \cup {"issues.listForRepo(labels)"}
    /\ \E response \in Answers(GoodFirstResponses) :
          /\ lastResponse' = response
          /\ IF ~response.ok /\ ~GivesUp(response) THEN Retry
             ELSE /\ issues' = IF response.ok THEN response.data ELSE <<>>
                  /\ caught' = Catch("getGoodFirstIssues", response)
                  /\ pc' = "contributing"
                  /\ attempt' = 1
                  /\ UNCHANGED <<repo, enableAdvancedStats, lastCommitDays,
                                 hasContributing, hasCodeOfConductFile,
                                 contributorsCount, prStats, analysis, otherVars,
                                 runVars>>

\* as HasFile, a guide reported whatever the request did
HasFile_Always(response) == TRUE

\* the file exists when the request for it succeeded: true after withRetry,
\* false in the catch block
HasFile(response) == response.ok

\* lines 472, 418-431: hasContributingGuide
HasContributingGuide ==
    /\ pc = "contributing"
    /\ requested' = requested \cup {"repos.getContent(CONTRIBUTING.md)"}
    /\ \E response \in Answers(ContentResponses) :
          /\ lastResponse' = response
          /\ IF ~response.ok /\ ~GivesUp(response) THEN Retry
             ELSE /\ hasContributing' = HasFile(response)
                  /\ caught' = Catch("hasContributingGuide", response)
                  /\ pc' = "codeOfConduct"
                  /\ attempt' = 1
                  /\ UNCHANGED <<repo, enableAdvancedStats, lastCommitDays,
                                 issues, hasCodeOfConductFile, contributorsCount,
                                 prStats, analysis, otherVars, runVars>>

\* line 475, analytics.ts 227-244: hasCodeOfConduct
HasCodeOfConduct ==
    /\ pc = "codeOfConduct"
    /\ requested' = requested \cup {"repos.getContent(CODE_OF_CONDUCT.md)"}
    /\ \E response \in Answers(ContentResponses) :
          /\ lastResponse' = response
          /\ IF ~response.ok /\ ~GivesUp(response) THEN Retry
             ELSE /\ hasCodeOfConductFile' = HasFile(response)
                  /\ caught' = Catch("hasCodeOfConduct", response)
                  /\ pc' = "contributors"
                  /\ attempt' = 1
                  /\ UNCHANGED <<repo, enableAdvancedStats, lastCommitDays,
                                 issues, hasContributing, contributorsCount,
                                 prStats, analysis, otherVars, runVars>>

\* as IsActive, the 30-day limit taken inclusively
IsActive_Inclusive(days) == days # NULL /\ days[1] <= 30

\* line 490: lastCommitDays !== null && lastCommitDays < 30
IsActive(days) == days # NULL /\ days[1] < 30

\* as Assemble, the optional statistics present from the start, as nulls
Assemble_NullStats(count) ==
    [stars |-> repo.stargazers_count,
     lastActivity |-> lastCommitDays,
     active |-> IsActive(lastCommitDays),
     openIssues |-> repo.open_issues_count,
     hasContributing |-> hasContributing,
     hasCodeOfConduct |-> hasCodeOfConductFile,
     contributorsCount |-> count,
     goodFirstIssues |-> issues,
     prStats |-> NULL,
     issueResponseStats |-> NULL]

\* the record of lines 483-499
Assemble(count) ==
    [stars |-> repo.stargazers_count,
     lastActivity |-> lastCommitDays,
     active |-> IsActive(lastCommitDays),
     openIssues |-> repo.open_issues_count,
     hasContributing |-> hasContributing,
     hasCodeOfConduct |-> hasCodeOfConductFile,
     contributorsCount |-> count,
     goodFirstIssues |-> issues]

\* lines 510-513: the score is added to the record, which is returned
Scored(record) ==
    [activityScore |-> calculateOverallScore(record)] @@ record

\* as ContributorsCount, the length of the page reported
ContributorsCount_Length(response) ==
    IF ~response.ok THEN NULL
    ELSE IF Len(response.data) > 0 THEN Some("1") ELSE Some("0")

\* analytics.ts 200-222: contributors.length > 0 ? '10+' : '0', null in the
\* catch block
ContributorsCount(response) ==
    IF ~response.ok THEN NULL
    ELSE IF Len(response.data) > 0 THEN Some("10+") ELSE Some("0")

\* lines 481-499, analytics.ts 200-222: getContributorsCount, then the record;
\* without advanced statistics the function goes on to the score and returns
GetContributorsCount ==
    /\ pc = "contributors"
    /\ requested' = requested \cup {"repos.listContributors"}
    /\ \E response \in Answers(ContributorResponses) :
          /\ lastResponse' = response
          /\ IF ~response.ok /\ ~GivesUp(response) THEN Retry
             ELSE LET count == ContributorsCount(response)
                  IN  /\ contributorsCount' = count
                      /\ caught' = Catch("getContributorsCount", response)
                      /\ IF enableAdvancedStats
                         THEN /\ analysis' = Assemble(count)
                              /\ pc' = "prStats"
                         ELSE /\ analysis' = Scored(Assemble(count))
                              /\ pc' = "done"
                      /\ attempt' = 1
                      /\ UNCHANGED <<repo, enableAdvancedStats, lastCommitDays,
                                     issues, hasContributing,
                                     hasCodeOfConductFile, prStats, otherVars,
                                     runVars>>

\* as NoPRStats, the failure reported as a count of -1
NoPRStats_Flagged == [avgMergeTime |-> NULL, mergedCount |-> 0 - 1]

\* analytics.ts 125-130: the catch block of getPRStats
NoPRStats == [avgMergeTime |-> NULL, mergedCount |-> 0]

\* as NoIssueStats, the failure reported as a rate of -1
NoIssueStats_Flagged == [avgResponseTime |-> NULL, responseRate |-> 0 - 1]

\* analytics.ts 189-194: the catch block of getIssueResponseStats
NoIssueStats == [avgResponseTime |-> NULL, responseRate |-> 0]

\* line 503, analytics.ts 84-131: getPRStats
GetPRStats ==
    /\ pc = "prStats"
    /\ requested' = requested \cup {"pulls.list"}
    /\ \E response \in Answers(PRResponses) :
          /\ lastResponse' = response
          /\ IF ~response.ok /\ ~GivesUp(response) THEN Retry
             ELSE /\ prStats' = IF response.ok THEN PRStatsCallback(response.data)
                                ELSE NoPRStats
                  /\ caught' = Catch("getPRStats", response)
                  /\ pc' = "issueStats"
                  /\ attempt' = 1
                  /\ UNCHANGED <<repo, enableAdvancedStats, lastCommitDays,
                                 issues, hasContributing, hasCodeOfConductFile,
                                 contributorsCount, analysis, otherVars, runVars>>

\* lines 504-513, analytics.ts 136-195: getIssueResponseStats, then both
\* statistics are stored, the score is added and the record is returned.
\* An attempt fails when the issue list or a first-comment request fails.
GetIssueResponseStats ==
    /\ pc = "issueStats"
    /\ \E response \in Answers(IssueResponses) :
       \E stats \in {IF response.ok THEN IssueStatsCallback(response.data)
                     ELSE Thrown(response.status)} :
       \E outcome \in {IF Threw(stats) THEN Failure(stats.status)
                       ELSE Success(stats)} :
          /\ requested' = requested \cup {"issues.listForRepo"}
                 \cup (IF response.ok /\ Len(Commented(response.data)) > 0
                       THEN {"issues.listComments"} ELSE {})
          /\ lastResponse' = response
          /\ IF ~outcome.ok /\ ~GivesUp(outcome) THEN Retry
             ELSE /\ analysis' =
                        Scored([prStats |-> prStats,
                                issueResponseStats |->
                                    IF outcome.ok THEN outcome.data
                                    ELSE NoIssueStats] @@ analysis)
                  /\ caught' = Catch("getIssueResponseStats", outcome)
                  /\ pc' = "done"
                  /\ attempt' = 1
                  /\ UNCHANGED <<repo, enableAdvancedStats, lastCommitDays,
                                 issues, hasContributing, hasCodeOfConductFile,
                                 contributorsCount, prStats, otherVars, runVars>>

\* as PushResult, the loop not waiting for the issue statistics and the score
PushResult_Early ==
    /\ pc \in {"issueStats", "done"}
    /\ results' = Append(results, analysis)
    /\ repoIndex' = repoIndex + 1
    /\ IF repoIndex < Len(repos)
       THEN Enter(repos[repoIndex + 1])
       ELSE /\ pc' = "analyzed"
            /\ UNCHANGED <<repo, attempt, lastCommitDays, issues,
                           hasContributing, hasCodeOfConductFile,
                           contributorsCount, prStats, analysis, requested,
                           lastResponse, caught>>
    /\ UNCHANGED <<repos, mainVars, enableAdvancedStats, otherVars>>

\* lines 1207-1215: the record analyzeRepo returned is pushed to results and
\* the loop goes on to the next repository, or ends
PushResult ==
    /\ pc = "done"
    /\ results' = Append(results, analysis)
    /\ repoIndex' = repoIndex + 1
    /\ IF repoIndex < Len(repos)
       THEN Enter(repos[repoIndex + 1])
       ELSE /\ pc' = "analyzed"
            /\ UNCHANGED <<repo, attempt, lastCommitDays, issues,
                           hasContributing, hasCodeOfConductFile,
                           contributorsCount, prStats, analysis, requested,
                           lastResponse, caught>>
    /\ UNCHANGED <<repos, mainVars, enableAdvancedStats, otherVars>>

Next ==
    \/ FetchLastCommit
    \/ GetGoodFirstIssues
    \/ HasContributingGuide
    \/ HasCodeOfConduct
    \/ GetContributorsCount
    \/ GetPRStats
    \/ GetIssueResponseStats
    \/ PushResult

Spec == Init /\ [][Next]_vars

\* a run over two repositories
SpecRun == InitRun(RunOfTwo) /\ [][Next]_vars

(***************************************************************************)
(* The search cache (utils/cache.ts).  JavaScript values are tagged:       *)
(* [type, v] with type "number", "string", "array" (v the items) or        *)
(* "object" (v the members [key, value] in insertion order).  A JSON text  *)
(* is the sequence of its tokens.  The file system and the clock are       *)
(* reliable: a write or unlink succeeds and Date.now() does not go back.   *)
(***************************************************************************)
Num(n) == [type |-> "number", v |-> n]
Str(s) == [type |-> "string", v |-> s]
Arr(items) == [type |-> "array", v |-> items]
Obj(members) == [type |-> "object", v |-> members]
Member(key, value) == [key |-> key, value |-> value]

\* obj[key] of an object that has the key
Get(obj, key) ==
    LET k == CHOOSE n \in 1..Len(obj.v) : obj.v[n].key = key
    IN  obj.v[k].value

\* Object.keys(obj)
ObjectKeys(obj) == [n \in 1..Len(obj.v) |-> obj.v[n].key]

Token(t, v) == [t |-> t, v |-> v]

\* JSON.stringify(value): the members of an object in insertion order, a
\* member that is undefined left out
RECURSIVE JSONStringify(_)
RECURSIVE StringifyItems(_)
RECURSIVE StringifyMembers(_)
JSONStringify(value) ==
    IF value.type = "array"
    THEN <<Token("[", "")>> \o StringifyItems(value.v) \o <<Token("]", "")>>
    ELSE IF value.type = "object"
    THEN <<Token("{", "")>> \o StringifyMembers(value.v) \o <<Token("}", "")>>
    ELSE <<Token(value.type, value.v)>>

StringifyItems(items) ==
    IF items = <<>> THEN <<>>
    ELSE JSONStringify(Head(items)) \o StringifyItems(Tail(items))

StringifyMembers(members) ==
    IF members = <<>> THEN <<>>
    ELSE IF Head(members).value.type = "undefined"
    THEN StringifyMembers(Tail(members))
    ELSE <<Token("key", Head(members).key)>>
         \o JSONStringify(Head(members).value)
         \o StringifyMembers(Tail(members))

\* JSON.stringify(obj, keys): the members named in keys, in the order of keys
JSONStringifyKeys(obj, keys) ==
    LET present == SelectSeq(keys, LAMBDA k :
                       \E n \in 1..Len(obj.v) : obj.v[n].key = k)
    IN  JSONStringify(Obj([n \in 1..Len(present) |->
                              Member(present[n], Get(obj, present[n]))]))

\* JSON.parse(text): the value a text starts with, and the rest of the text
RECURSIVE ParseValue(_)
RECURSIVE ParseItems(_, _)
RECURSIVE ParseMembers(_, _)
ParseValue(text) ==
    LET token == Head(text)
    IN  IF token.t = "[" THEN ParseItems(Tail(text), <<>>)
        ELSE IF token.t = "{" THEN ParseMembers(Tail(text), <<>>)
        ELSE [value |-> [type |-> token.t, v |-> token.v], rest |-> Tail(text)]

ParseItems(text, items) ==
    IF Head(text).t = "]" THEN [value |-> Arr(items), rest |-> Tail(text)]
    ELSE LET item == ParseValue(text)
         IN  ParseItems(item.rest, Append(items, item.value))

ParseMembers(text, members) ==
    IF Head(text).t = "}" THEN [value |-> Obj(members), rest |-> Tail(text)]
    ELSE LET member == ParseValue(Tail(text))
         IN  ParseMembers(member.rest,
                          Append(members, Member(Head(text).v, member.value)))

JSONParse(text) == ParseValue(text).value

\* the property names of SearchParams in the order Array.prototype.sort
\* gives them
SortedNames ==
    <<"keywords", "language", "license", "maxResults", "minForks", "minStars",
      "requireGoodFirstIssues">>

\* keys.sort()
Sort(keys) ==
    SelectSeq(SortedNames, LAMBDA name : \E n \in 1..Len(keys) : keys[n] = name)

\* lines 21-24; the md5 digest stands for the text it is taken of
generateCacheKey(params) == JSONStringifyKeys(params, Sort(ObjectKeys(params)))

\* fs: the directory without the file, and with the file written
Unlink(dir, path) == [p \in DOMAIN dir \ {path} |-> dir[p]]
WriteFile(dir, path, text) ==
    [p \in DOMAIN dir \cup {path} |-> IF p = path THEN text ELSE dir[p]]

\* milliseconds
ClockStep == 20 * 60 * 1000
MaxClock == 4800000

\* two searches, the first with its properties in either order
ParamInputs ==
    {Obj(<<Member("keywords", Str("cli")), Member("language", Str("go"))>>),
     Obj(<<Member("language", Str("go")), Member("keywords", Str("cli"))>>),
     Obj(<<Member("keywords", Str("web")), Member("language", Str("go"))>>)}

\* search results: lists of repositories
DataInputs ==
    {Arr(<<Obj(<<Member("id", Num(1))>>)>>),
     Arr(<<Obj(<<Member("id", Num(1))>>), Obj(<<Member("id", Num(2))>>)>>)}

TtlInputs == {DEFAULT_CONFIG.cacheTTL, ClockStep}

\* the search a params object stands for: its properties, in no order
Search(params) == {params.v[n] : n \in 1..Len(params.v)}

InitCache == InitCalls({NoCall})

\* as IsFresh, an entry as old as ttl still served
IsFresh_Inclusive(age, ttl) == age <= ttl

\* line 43: age < ttl
IsFresh(age, ttl) == age < ttl

\* lines 29-53
GetCache ==
    \E params \in ParamInputs, ttl \in TtlInputs :
       LET key == generateCacheKey(params)
           cachePath == key
           exists == cachePath \in DOMAIN files
           cached == JSONParse(files[cachePath])
           age == clock - Get(cached, "timestamp").v
           hit == exists /\ IsFresh(age, ttl)
       IN  /\ call' = [fn |-> "getCache", arg |-> [params |-> params, ttl |-> ttl],
                       ret |-> IF hit THEN Some(Get(cached, "data")) ELSE NULL]
           /\ files' = IF exists /\ ~hit THEN Unlink(files, cachePath) ELSE files
           /\ dropped' =
                 IF /\ Search(params) \in DOMAIN writes
                    /\ clock - writes[Search(params)].at >= ttl
                 THEN dropped \cup {Search(params)} ELSE dropped
           /\ UNCHANGED <<clock, writes>>
           /\ UNCHANGED <<analyzeVars, returned, retryVars>>

\* lines 58-78
SetCache ==
    \E params \in ParamInputs, data \in DataInputs :
       LET key == generateCacheKey(params)
           cachePath == key
           cacheData == Obj(<<Member("timestamp", Num(clock)),
                              Member("params", params),
                              Member("data", data)>>)
       IN  /\ files' = WriteFile(files, cachePath, JSONStringify(cacheData))
           /\ call' = [fn |-> "setCache", arg |-> [params |-> params, data |-> data],
                       ret |-> Some(TRUE)]
           /\ writes' = [s \in DOMAIN writes \cup {Search(params)} |->
                            IF s = Search(params) THEN [data |-> data, at |-> clock]
                            ELSE writes[s]]
           /\ dropped' = dropped \ {Search(params)}
           /\ UNCHANGED clock
           /\ UNCHANGED <<analyzeVars, returned, retryVars>>

\* the call has returned and time passes before the next
Tick ==
    /\ clock + ClockStep <= MaxClock
    /\ clock' = clock + ClockStep
    /\ call' = NoCall
    /\ UNCHANGED <<files, writes, dropped>>
    /\ UNCHANGED <<analyzeVars, returned, retryVars>>

NextCache ==
    \/ GetCache
    \/ SetCache
    \/ Tick

SpecCache == InitCache /\ [][NextCache]_vars

(***************************************************************************)
(* retryWithBackoff(fn, maxAttempts, initialDelay) (utils/retry.ts), for   *)
(* any fn.  An outcome of fn is a response: a success carries the value fn *)
(* resolves to, a failure the status of the error it rejects with, 0 for   *)
(* an error without a status.  One action is one iteration of the loop.    *)
(***************************************************************************)
MaxAttempts == 4

FnOutcomes ==
    {Success(<<v>>) : v \in {1, 2}}
    \cup {Failure(st) : st \in {0, 401, 403, 404, 422, 500}}

DelayInputs == {DEFAULT_CONFIG.retryDelay, 500}

\* as Jitters, with a jitter of up to 50% of the delay
Jitters_Wide(delay) == {0, (99 * 5 * delay) \div 1000}

\* Math.random() * 0.3 * delay for the least and the greatest Math.random()
\* of a step of 0.01
Jitters(delay) == {0, (99 * 3 * delay) \div 1000}

InitRetry ==
    /\ AnalyzeIdle
    /\ call = NoCall
    /\ returned = <<>>
    /\ CacheIdle
    /\ RetryEntered(0..MaxAttempts, DelayInputs)

\* as Rethrows, the attempt before the last taken for the last
Rethrows_Early(error) ==
    \/ error.status # 0 /\ error.status \in NON_RETRYABLE_STATUS_CODES
    \/ attempt = maxAttempts - 1

\* lines 29-37: the error is thrown again
Rethrows(error) ==
    \/ error.status # 0 /\ error.status \in NON_RETRYABLE_STATUS_CODES
    \/ attempt = maxAttempts

\* lines 23-45: one iteration of the loop
Attempt ==
    /\ settled = NULL
    /\ attempt <= maxAttempts
    /\ invocations' = invocations + 1
    /\ \E outcome \in FnOutcomes :
          /\ lastResponse' = outcome
          /\ IF outcome.ok
             THEN /\ settled' = Some([status |-> "fulfilled", value |-> outcome.data])
                  /\ UNCHANGED <<attempt, lastError, waits>>
             ELSE /\ lastError' = Some(outcome)
                  /\ IF Rethrows(outcome)
                     THEN /\ settled' = Some([status |-> "rejected", reason |-> Some(outcome)])
                          /\ UNCHANGED <<attempt, waits>>
                     ELSE \E jitter \in Jitters(initialDelay * 2 ^ (attempt - 1)) :
                             /\ waits' = Append(waits, initialDelay * 2 ^ (attempt - 1)
                                                          + jitter)
                             /\ attempt' = attempt + 1
                             /\ UNCHANGED settled
    /\ UNCHANGED <<maxAttempts, initialDelay>>
    /\ UNCHANGED <<pc, repo, enableAdvancedStats, lastCommitDays, issues,
                   hasContributing, hasCodeOfConductFile, contributorsCount,
                   prStats, analysis, requested, caught, runVars,
                   callVars, cacheVars>>

\* line 47: the loop has ended without a return or a throw
ThrowLastError ==
    /\ settled = NULL
    /\ attempt > maxAttempts
    /\ settled' = Some([status |-> "rejected", reason |-> lastError])
    /\ UNCHANGED <<attempt, lastError, waits, invocations, maxAttempts,
                   initialDelay>>
    /\ UNCHANGED <<pc, repo, enableAdvancedStats, lastCommitDays, issues,
                   hasContributing, hasCodeOfConductFile, contributorsCount,
                   prStats, analysis, requested, lastResponse, caught, runVars,
                   callVars, cacheVars>>

NextRetry ==
    \/ Attempt
    \/ ThrowLastError

SpecRetry == InitRetry /\ [][NextRetry]_vars

(***************************************************************************)
(* The search history (utils/userConfig.ts).  The configuration file holds *)
(* the JSON text of the configuration; it is read, changed and written     *)
(* back by every call of addToHistory.  The file system is reliable, and   *)
(* a call takes one millisecond of the clock.                              *)
(***************************************************************************)
CONFIG_FILE == ".repo-finder.config.json"

Bool(b) == [type |-> "boolean", v |-> b]
Null == [type |-> "null", v |-> ""]

\* DEFAULT_CONFIG as the object it is
DefaultConfig ==
    Obj(<<Member("minStars", Num(100)),
          Member("maxResults", Num(5)),
          Member("language", Str("TypeScript")),
          Member("saveResults", Bool(TRUE)),
          Member("cacheEnabled", Bool(TRUE)),
          Member("cacheTTL", Num(DEFAULT_CONFIG.cacheTTL)),
          Member("retryAttempts", Num(DEFAULT_CONFIG.retryAttempts)),
          Member("retryDelay", Num(DEFAULT_CONFIG.retryDelay))>>)

\* key in obj
Has(obj, key) == \E n \in 1..Len(obj.v) : obj.v[n].key = key

\* obj[key] = value: a property keeps its place, a new one comes last
Set(obj, key, value) ==
    IF Has(obj, key)
    THEN Obj([n \in 1..Len(obj.v) |->
                 IF obj.v[n].key = key THEN Member(key, value) ELSE obj.v[n]])
    ELSE Obj(Append(obj.v, Member(key, value)))

RECURSIVE Assign(_, _)
Assign(obj, members) ==
    IF members = <<>> THEN obj
    ELSE Assign(Set(obj, Head(members).key, Head(members).value), Tail(members))

\* { ...a, ...b }
Spread(a, b) == Assign(a, b.v)

\* lines 9-23: the defaults when there is no file
loadUserConfig(dir) ==
    IF CONFIG_FILE \in DOMAIN dir
    THEN Spread(DefaultConfig, JSONParse(dir[CONFIG_FILE]))
    ELSE Spread(DefaultConfig, Obj(<<>>))

\* config.searchHistory || []
HistoryOf(config) ==
    IF Has(config, "searchHistory") THEN Get(config, "searchHistory").v ELSE <<>>

\* items.unshift(item)
Unshift(items, item) == <<item>> \o items

\* items.slice(start, end)
Slice(items, start, end) ==
    SubSeq(items, start + 1, IF end < Len(items) THEN end ELSE Len(items))

MaxSearches == 11

\* two searches
SearchInputs ==
    {Obj(<<Member("keywords", Str("cli")), Member("language", Str("Go")),
           Member("minStars", Num(100)), Member("maxResults", Num(5)),
           Member("license", Null), Member("minForks", Null),
           Member("requireGoodFirstIssues", Bool(FALSE))>>),
     Obj(<<Member("keywords", Str("web")), Member("language", Str("Go")),
           Member("minStars", Num(500)), Member("maxResults", Num(10)),
           Member("license", Str("mit")), Member("minForks", Num(10)),
           Member("requireGoodFirstIssues", Bool(TRUE))>>)}

\* no configuration file, or one with a setting of the user and no history
InitHistory ==
    /\ AnalyzeIdle
    /\ call = NoCall
    /\ returned = <<>>
    /\ RetryIdle
    /\ clock = 0
    /\ writes = [search \in {} |-> <<>>]
    /\ dropped = {}
    /\ files \in {[path \in {} |-> <<>>],
                  [path \in {CONFIG_FILE} |->
                      JSONStringify(Obj(<<Member("minStars", Num(50))>>))]}

\* as KeptHistory, with one entry more
KeptHistory_Eleven(history) == Slice(history, 0, 11)

\* line 67
KeptHistory(history) == Slice(history, 0, 10)

\* lines 56-70
AddToHistory ==
    /\ Len(returned) < MaxSearches
    /\ \E searchParams \in SearchInputs, config \in {loadUserConfig(files)} :
          LET entry == Set(Spread(Obj(<<>>), searchParams), "timestamp", Num(clock))
              history == Unshift(HistoryOf(config), entry)
              saved == Set(config, "searchHistory", Arr(KeptHistory(history)))
          IN  /\ files' = WriteFile(files, CONFIG_FILE, JSONStringify(saved))
              /\ call' = [fn |-> "addToHistory", arg |-> searchParams,
                          ret |-> Some(NULL)]
              /\ returned' = Append(returned, [fn |-> "addToHistory",
                                               arg |-> searchParams,
                                               at |-> clock])
    /\ clock' = clock + 1
    /\ UNCHANGED <<writes, dropped>>
    /\ UNCHANGED <<analyzeVars, retryVars>>

\* lines 75-78
GetSearchHistory ==
    /\ \E config \in {loadUserConfig(files)} :
          call' = [fn |-> "getSearchHistory", arg |-> NULL,
                   ret |-> Some(Arr(HistoryOf(config)))]
    /\ UNCHANGED returned
    /\ UNCHANGED <<analyzeVars, cacheVars, retryVars>>

NextHistory ==
    \/ AddToHistory
    \/ GetSearchHistory

SpecHistory == InitHistory /\ [][NextHistory]_vars

(***************************************************************************)
(* The bookmarks (utils/bookmarks.ts).  The bookmarks file holds the JSON  *)
(* text of the list; every call reads it and addBookmark, removeBookmark   *)
(* write it back.  A repository name is the sequence of its characters.    *)
(* The file system is reliable, and a call takes one millisecond.          *)
(***************************************************************************)
BOOKMARKS_FILE == "~/.gitpick-bookmarks/bookmarks.json"

Undefined == [type |-> "undefined", v |-> ""]

\* the promise of a call that returns nothing
Resolved == [status |-> "fulfilled", reason |-> ""]
Rejected(message) == [status |-> "rejected", reason |-> message]

\* chars.split(sep)
RECURSIVE Split(_, _)
Split(chars, sep) ==
    IF \E n \in 1..Len(chars) : chars[n] = sep
    THEN LET first == CHOOSE n \in 1..Len(chars) :
                         /\ chars[n] = sep
                         /\ \A m \in 1..(n - 1) : chars[m] # sep
         IN  <<SubSeq(chars, 1, first - 1)>>
                 \o Split(SubSeq(chars, first + 1, Len(chars)), sep)
    ELSE <<chars>>

\* parts[index], undefined past the end
At(parts, index) ==
    IF index < Len(parts) THEN Str(parts[index + 1]) ELSE Undefined

MaxBookmarkCalls == 5

\* the names of three repositories, two of them of one owner and two with
\* one name, and of one without an owner
FullNames ==
    {<<"a", "/", "x">>, <<"b", "/", "x">>, <<"a", "/", "y">>, <<"z">>}

\* the analysis of a repository and the tags given with it
BookmarkInputs ==
    {[analysis |-> Obj(<<Member("name", Str(fullName)),
                         Member("description", Str("text")),
                         Member("stars", Num(100 + Len(fullName))),
                         Member("language",
                                IF fullName[1] = "a" THEN Str("Go") ELSE Null),
                         Member("url", Str(<<"https://github.com/">> \o fullName))>>),
      tags |-> IF fullName[1] = "b" THEN Arr(<<Str("cli")>>) ELSE Undefined]
        : fullName \in FullNames}

\* lines 34-43: no bookmarks when there is no file
loadBookmarks(dir) ==
    IF BOOKMARKS_FILE \in DOMAIN dir THEN JSONParse(dir[BOOKMARKS_FILE]).v
    ELSE <<>>

\* an empty store
InitBookmarks ==
    /\ AnalyzeIdle
    /\ call = NoCall
    /\ returned = <<>>
    /\ RetryIdle
    /\ CacheIdle

\* as AlreadyBookmarked, only the bookmark added last looked at
AlreadyBookmarked_Last(bookmarks, repoAnalysis) ==
    /\ bookmarks # <<>>
    /\ Get(bookmarks[Len(bookmarks)], "fullName") = Get(repoAnalysis, "name")

\* line 63: bookmarks.find(b => b.fullName === analysis.name)
AlreadyBookmarked(bookmarks, repoAnalysis) ==
    \E n \in 1..Len(bookmarks) :
        Get(bookmarks[n], "fullName") = Get(repoAnalysis, "name")

\* lines 56-81: the directory after the call, and the promise returned
addBookmark(dir, repoAnalysis, tags, now) ==
    LET bookmarks == loadBookmarks(dir)
        bookmark ==
            Obj(<<Member("name", At(Split(Get(repoAnalysis, "name").v, "/"), 1)),
                  Member("fullName", Get(repoAnalysis, "name")),
                  Member("url", Get(repoAnalysis, "url")),
                  Member("description", Get(repoAnalysis, "description")),
                  Member("stars", Get(repoAnalysis, "stars")),
                  Member("language", Get(repoAnalysis, "language")),
                  Member("savedAt", Num(now)),
                  Member("tags", tags)>>)
    IN  IF AlreadyBookmarked(bookmarks, repoAnalysis)
        THEN [files |-> dir, ret |-> Rejected("Repository already bookmarked")]
        ELSE [files |-> WriteFile(dir, BOOKMARKS_FILE,
                                  JSONStringify(Arr(Append(bookmarks, bookmark)))),
              ret |-> Resolved]

\* lines 115-118
isBookmarked(dir, fullName) ==
    \E bookmarks \in {loadBookmarks(dir)} :
        \E n \in 1..Len(bookmarks) : Get(bookmarks[n], "fullName").v = fullName

\* a call of addBookmark
AddBookmark ==
    /\ clock < MaxBookmarkCalls
    /\ \E input \in BookmarkInputs :
          \E done \in {addBookmark(files, input.analysis, input.tags, clock)} :
             /\ call' = [fn |-> "addBookmark", arg |-> input,
                         ret |-> Some(done.ret)]
             /\ files' = done.files
    /\ clock' = clock + 1
    /\ UNCHANGED <<writes, dropped, returned>>
    /\ UNCHANGED <<analyzeVars, retryVars>>

\* lines 86-90
RemoveBookmark ==
    /\ clock < MaxBookmarkCalls
    /\ \E fullName \in FullNames, bookmarks \in {loadBookmarks(files)} :
          LET filtered == SelectSeq(bookmarks, LAMBDA b :
                              Get(b, "fullName").v # fullName)
          IN  /\ call' = [fn |-> "removeBookmark", arg |-> fullName,
                          ret |-> Some(Resolved)]
              /\ files' = WriteFile(files, BOOKMARKS_FILE,
                                    JSONStringify(Arr(filtered)))
    /\ clock' = clock + 1
    /\ UNCHANGED <<writes, dropped, returned>>
    /\ UNCHANGED <<analyzeVars, retryVars>>

NextBookmarks ==
    \/ AddBookmark
    \/ RemoveBookmark

SpecBookmarks == InitBookmarks /\ [][NextBookmarks]_vars

(***************************************************************************)
(* main and its modes (index.ts).  argv is [flags, analyze]: the boolean   *)
(* options given and the value of -a/--analyze; env is GITHUB_TOKEN.  A    *)
(* URL is the sequence of its pieces: "https://", "github.com/", "/",      *)
(* ".git" and the names between them.  console holds what was printed as   *)
(* [text, about]; effects holds [action, target, ok]: the requests that    *)
(* change something on GitHub, the searches, and the commands run.  The    *)
(* runs followed are those with cacheEnabled set to false.                 *)
(***************************************************************************)
Line(text, about) == [text |-> text, about |-> about]
Effect(action, target, ok) == [action |-> action, target |-> target, ok |-> ok]

\* if (process.env.GITHUB_TOKEN)
HasToken == env # NULL /\ env[1] # ""

TemplateNames == <<"trending", "beginner", "active", "small", "hacktoberfest">>

\* utils/templates.ts 13-66
QUICK_TEMPLATES ==
    [name \in {TemplateNames[n] : n \in 1..Len(TemplateNames)} |->
        CASE name = "trending" ->
                [name |-> "Trending",
                 description |-> "Trending repositories this week",
                 params |-> [keywords |-> "created:>2024-12-01", minStars |-> 500,
                             maxResults |-> 20, requireGoodFirstIssues |-> FALSE,
                             language |-> "TypeScript"]]
          [] name = "beginner" ->
                [name |-> "Beginner Friendly",
                 description |-> "Perfect projects for beginners",
                 params |-> [keywords |-> "good-first-issue", minStars |-> 100,
                             maxResults |-> 30, requireGoodFirstIssues |-> TRUE,
                             minForks |-> 10]]
          [] name = "active" ->
                [name |-> "Super Active",
                 description |-> "Highly active projects with recent commits",
                 params |-> [keywords |-> "pushed:>2024-12-01", minStars |-> 500,
                             maxResults |-> 20, requireGoodFirstIssues |-> FALSE]]
          [] name = "small" ->
                [name |-> "Small Projects",
                 description |-> "Growing projects (100-1000 stars)",
                 params |-> [keywords |-> "stars:100..1000", minStars |-> 100,
                             maxResults |-> 25, requireGoodFirstIssues |-> TRUE]]
          [] name = "hacktoberfest" ->
                [name |-> "Hacktoberfest",
                 description |-> "Hacktoberfest-ready repositories",
                 params |-> [keywords |-> "hacktoberfest topic:hacktoberfest",
                             minStars |-> 50, maxResults |-> 30,
                             requireGoodFirstIssues |-> TRUE]]]

\* utils/templates.ts 71-73
getTemplate(name) ==
    IF name \in DOMAIN QUICK_TEMPLATES THEN Some(QUICK_TEMPLATES[name]) ELSE NULL

\* lines 1017-1037: the template flags in the order main tests them
TemplateFlags(flags) == SelectSeq(TemplateNames, LAMBDA name : name \in flags)

GitHubActionFlags == {"fork", "star", "clone", "watch"}

\* url.replace(/^prefix/, '') for a prefix that is one piece
StripPrefix(pieces, prefixes) ==
    IF pieces # <<>> /\ Head(pieces) \in prefixes THEN Tail(pieces) ELSE pieces

\* name.replace(/\.git$/, '')
StripSuffix(pieces, suffix) ==
    IF pieces # <<>> /\ pieces[Len(pieces)] = suffix
    THEN SubSeq(pieces, 1, Len(pieces) - 1) ELSE pieces

\* lines 82-101
parseGitHubUrl(url) ==
    LET cleaned == StripPrefix(StripPrefix(url, {"https://", "http://"}),
                               {"github.com/"})
        parts == SelectSeq(Split(cleaned, "/"), LAMBDA p : Len(p) > 0)
    IN  IF Len(parts) >= 2
        THEN Some([owner |-> parts[1], repo |-> StripSuffix(parts[2], ".git")])
        ELSE NULL

\* `${owner}/${repo}`
FullName(parsed) == parsed.owner \o <<"/">> \o parsed.repo

\* the fields of an analysis that the bookmarks read
AnalysisObject(fullName, stars) ==
    Obj(<<Member("name", Str(fullName)),
          Member("description", Str("text")),
          Member("stars", Num(stars)),
          Member("language", Null),
          Member("url", Str(<<"https://github.com/">> \o fullName))>>)

Urls ==
    {<<"https://", "github.com/", "o", "/", "r">>, <<"o", "/", "r", ".git">>,
     <<"github.com/", "o">>}

EnvInputs == {NULL, Some(""), Some("ghp_token")}

AnalyzeFlagSets ==
    {{}, {"fork"}, {"clone"}, {"star", "watch"},
     {"fork", "star", "watch", "clone"}, {"save"}, {"star", "save"}}

\* the bookmarks file after o/r was bookmarked
Bookmarked ==
    addBookmark([path \in {} |-> <<>>], AnalysisObject(<<"o", "/", "r">>, 200),
                Undefined, 0).files

\* the runs of gitpick -a <url> followed: every set of flags with every
\* token; the other URLs, a star set before and a bookmark saved before
\* with some of them
AnalyzeLaunches ==
    {l \in [flags : AnalyzeFlagSets, url : Urls, env : EnvInputs,
            starred : BOOLEAN, bookmarked : BOOLEAN] :
        /\ l.url # <<"https://", "github.com/", "o", "/", "r">> =>
              l.flags \in {{}, {"fork"}} /\ ~l.starred /\ ~l.bookmarked
        /\ l.starred => l.env = Some("ghp_token") /\ l.flags \in {{}, {"star", "watch"}}
        /\ l.bookmarked => l.flags \in {{}, {"save"}} /\ ~l.starred}

\* lines 971-1053, 190-196: gitpick -a <url> [--fork] [--star] ...
InitAnalyze ==
    /\ \E l \in AnalyzeLaunches :
          /\ argv = [flags |-> l.flags, analyze |-> Some(l.url)]
          /\ env = l.env
          /\ starred = l.starred
          /\ files = IF l.bookmarked THEN Bookmarked ELSE [path \in {} |-> <<>>]
    /\ answers = NULL
    /\ console = <<>>
    /\ effects = <<>>
    /\ pc = "main"
    /\ attempt = 1
    /\ repo = NULL
    /\ enableAdvancedStats = TRUE
    /\ lastCommitDays = NULL
    /\ issues = NULL
    /\ hasContributing = NULL
    /\ hasCodeOfConductFile = NULL
    /\ contributorsCount = NULL
    /\ prStats = NULL
    /\ analysis = NULL
    /\ requested = {}
    /\ lastResponse = NULL
    /\ caught = {}
    /\ repos = <<>>
    /\ repoIndex = 0
    /\ results = <<>>
    /\ call = NoCall
    /\ returned = <<>>
    /\ clock = 0
    /\ writes = [search \in {} |-> <<>>]
    /\ dropped = {}
    /\ RetryIdle

\* the locals of analyzeRepo, its flag and the attempt counter
analysisLocals ==
    <<attempt, repo, enableAdvancedStats, lastCommitDays, issues, hasContributing,
      hasCodeOfConductFile, contributorsCount, prStats, analysis, requested,
      lastResponse, caught>>

\* lines 1017-1037, 944-966: a template flag is given; templateMode prints
\* the name and the description of the template and returns
TemplateMode ==
    /\ pc = "main"
    /\ TemplateFlags(argv.flags) # <<>>
    /\ LET templateName == TemplateFlags(argv.flags)[1]
           template == getTemplate(templateName)
       IN  console' = IF template = NULL
                      THEN Append(console, Line("Template not found", templateName))
                      ELSE console \o <<Line(template[1].name, ""),
                                        Line(template[1].description, "")>>
    /\ pc' = "exit"
    /\ UNCHANGED <<analysisLocals, repos, repoIndex, results, argv, env, answers,
                   effects, starred, otherVars>>

\* lines 1040-1049, 190-196: -a <url> is given and no template flag
AnalyzeMode ==
    /\ pc = "main"
    /\ TemplateFlags(argv.flags) = <<>>
    /\ argv.analyze # NULL
    /\ console' = Append(console, Line("GitPick - Analyze Mode", ""))
    /\ pc' = "getRepoByUrl"
    /\ UNCHANGED <<analysisLocals, repos, repoIndex, results, argv, env, answers,
                   effects, starred, otherVars>>

\* the answers to repos.get: a refusal, an error, the repository
RepoResponses ==
    {Failure(404), Failure(500),
     Success(<<[stargazers_count |-> 200, open_issues_count |-> 5]>>)}

\* lines 106-124, 198-211: the repository is fetched; analyzeRepo(repo, null,
\* true) is entered, or the mode ends with a message
GetRepoByUrl ==
    /\ pc = "getRepoByUrl"
    /\ LET parsed == parseGitHubUrl(argv.analyze[1])
       IN  IF parsed = NULL
           THEN /\ console' = Append(console, Line("Failed to fetch repository", ""))
                /\ pc' = "exit"
                /\ UNCHANGED <<attempt, repo, lastCommitDays, issues,
                               hasContributing, hasCodeOfConductFile,
                               contributorsCount, prStats, analysis, requested,
                               lastResponse, caught>>
           ELSE \E response \in RepoResponses :
                   IF ~response.ok /\ ~GivesUp(response)
                   THEN /\ attempt' = attempt + 1
                        /\ lastResponse' = response
                        /\ UNCHANGED <<pc, repo, lastCommitDays, issues,
                                       hasContributing, hasCodeOfConductFile,
                                       contributorsCount, prStats, analysis,
                                       requested, caught, console>>
                   ELSE IF ~response.ok
                   THEN /\ console' = Append(console,
                                             Line("Failed to fetch repository", ""))
                        /\ pc' = "exit"
                        /\ lastResponse' = response
                        /\ UNCHANGED <<attempt, repo, lastCommitDays, issues,
                                       hasContributing, hasCodeOfConductFile,
                                       contributorsCount, prStats, analysis,
                                       requested, caught>>
                   ELSE /\ Enter(response.data[1])
                        /\ UNCHANGED console
    /\ UNCHANGED <<enableAdvancedStats, repos, repoIndex, results, argv, env,
                   answers, effects, starred, otherVars>>

\* lines 213-223: the result is displayed, with a note when it is bookmarked
DisplayAnalysis ==
    /\ pc = "done"
    /\ argv # NULL /\ argv.analyze # NULL
    /\ LET fullName == FullName(parseGitHubUrl(argv.analyze[1])[1])
       IN  console' = console \o <<Line("Analysis complete!", ""),
                                   Line("displayRepo", analysis)>>
                          \o IF isBookmarked(files, fullName)
                             THEN <<Line("This repository is in your bookmarks", "")>>
                             ELSE <<>>
    /\ pc' = "githubActions"
    /\ UNCHANGED <<attempt, repo, enableAdvancedStats, lastCommitDays, issues,
                   hasContributing, hasCodeOfConductFile, contributorsCount,
                   prStats, analysis, requested, lastResponse, caught, repos,
                   repoIndex, results, argv, env, answers, effects, starred, otherVars>>

\* the order of lines 231-249
ActionOrder == <<"fork", "star", "watch", "clone">>

\* as MayAct, the token not asked for
MayAct_NoToken(parsed) == parsed # NULL

\* line 228: parsed && process.env.GITHUB_TOKEN
MayAct(parsed) == parsed # NULL /\ HasToken

\* lines 226-256: the actions asked for by --fork, --star, --watch, --clone;
\* each request succeeds or fails
GitHubActions ==
    /\ pc = "githubActions"
    /\ LET wanted == SelectSeq(ActionOrder, LAMBDA a : a \in argv.flags)
           parsed == parseGitHubUrl(argv.analyze[1])
       IN  IF wanted # <<>> /\ MayAct(parsed)
           THEN \E ok \in [1..Len(wanted) -> BOOLEAN] :
                   /\ effects' = effects \o
                         [n \in 1..Len(wanted) |->
                             Effect(wanted[n], FullName(parsed[1]), ok[n])]
                   /\ console' = console
                         \o <<Line("Performing GitHub actions...", "")>>
                         \o [n \in 1..Len(wanted) |->
                                Line(IF ok[n] THEN "success" ELSE "failure",
                                     wanted[n])]
                   /\ starred' = (starred \/ \E n \in 1..Len(wanted) :
                                                wanted[n] = "star" /\ ok[n])
           ELSE IF wanted # <<>> /\ ~HasToken
           THEN /\ console' = Append(console,
                        Line("GITHUB_TOKEN required for GitHub actions", ""))
                /\ UNCHANGED <<effects, starred>>
           ELSE UNCHANGED <<console, effects, starred>>
    /\ pc' = "saveBookmark"
    /\ UNCHANGED <<attempt, repo, enableAdvancedStats, lastCommitDays, issues,
                   hasContributing, hasCodeOfConductFile, contributorsCount,
                   prStats, analysis, requested, lastResponse, caught, repos,
                   repoIndex, results, argv, env, answers, otherVars>>

\* lines 259-266, 307-313: addBookmark(analysis) and the message printed
SaveAnalysis(next) ==
    \E done \in {addBookmark(files,
                     AnalysisObject(FullName(parseGitHubUrl(argv.analyze[1])[1]),
                                    analysis.stars),
                     Undefined, clock)} :
        /\ files' = done.files
        /\ console' = Append(next, IF done.ret = Resolved
                                   THEN Line("Saved to bookmarks", "")
                                   ELSE Line(done.ret.reason, ""))

\* lines 259-266: --save
SaveToBookmarks ==
    /\ pc = "saveBookmark"
    /\ IF "save" \in argv.flags THEN SaveAnalysis(console)
       ELSE UNCHANGED <<files, console>>
    /\ pc' = "menu"
    /\ UNCHANGED <<clock, writes, dropped, callVars, retryVars>>
    /\ UNCHANGED <<attempt, repo, enableAdvancedStats, lastCommitDays, issues,
                   hasContributing, hasCodeOfConductFile, contributorsCount,
                   prStats, analysis, requested, lastResponse, caught, repos,
                   repoIndex, results, argv, env, answers, effects, starred>>

\* lines 146-160 of utils/githubActions.ts: true when the request succeeds,
\* false when the repository is not starred or the request fails
checkIfStarred == {starred, FALSE}

\* line 284
StarLabel(isStarred) ==
    IF isStarred THEN "Unstar repository" ELSE "Star repository"

\* lines 270-289: the entries of the menu, [name, value]
Choices(bookmarked, parsed, isStarred) ==
    <<[name |-> "Open repository in browser", value |-> "open"],
      [name |-> "Open good first issues page", value |-> "issues"]>>
    \o (IF ~bookmarked
        THEN <<[name |-> "Save to bookmarks", value |-> "save"]>> ELSE <<>>)
    \o (IF HasToken /\ parsed # NULL
        THEN <<[name |-> StarLabel(isStarred), value |-> "star"],
               [name |-> "Fork repository", value |-> "fork"],
               [name |-> "Clone locally", value |-> "clone"]>>
        ELSE <<>>)
    \o <<[name |-> "Exit", value |-> "exit"]>>

\* lines 317-320: starRepository is called on either side of the conditional
StarRequest(isStarred) == IF isStarred THEN "star" ELSE "star"

\* the star after a request that succeeded
Starred(request) == request = "star"

\* lines 269-331: the menu shown when no action flag and no --save is given,
\* and the entry chosen
Menu ==
    /\ pc = "menu"
    /\ pc' = "exit"
    /\ LET parsed == parseGitHubUrl(argv.analyze[1])
           fullName == FullName(parsed[1])
           url == <<"https://github.com/">> \o fullName
       IN  IF argv.flags \cap (GitHubActionFlags \cup {"save"}) # {}
           THEN UNCHANGED <<console, effects, starred, files>>
           ELSE \E shownStarred \in checkIfStarred :
                \E choices \in {Choices(isBookmarked(files, fullName), parsed,
                                        shownStarred)} :
                \E chosen \in 1..Len(choices) :
                   LET action == choices[chosen].value
                       prompt == Append(console,
                                     Line("What would you like to do?",
                                          [choices |-> choices, chosen |-> chosen]))
                   IN  CASE action \in {"open", "issues"} ->
                              /\ effects' = Append(effects,
                                     Effect("open", IF action = "open" THEN url
                                                    ELSE url \o <<"/issues">>, TRUE))
                              /\ console' = Append(prompt, Line("Opened", action))
                              /\ UNCHANGED <<starred, files>>
                         [] action = "save" ->
                              /\ SaveAnalysis(prompt)
                              /\ UNCHANGED <<effects, starred>>
                         [] action = "star" ->
                              \E isStarred \in checkIfStarred, ok \in BOOLEAN :
                                 /\ effects' = Append(effects,
                                        Effect(StarRequest(isStarred), fullName, ok))
                                 /\ console' = Append(prompt,
                                        Line(IF ok THEN "success" ELSE "failure",
                                             StarRequest(isStarred)))
                                 /\ starred' = IF ok
                                               THEN Starred(StarRequest(isStarred))
                                               ELSE starred
                                 /\ UNCHANGED files
                         [] action \in {"fork", "clone"} ->
                              \E ok \in BOOLEAN :
                                 /\ effects' = Append(effects,
                                        Effect(action, fullName, ok))
                                 /\ console' = Append(prompt,
                                        Line(IF ok THEN "success" ELSE "failure",
                                             action))
                                 /\ UNCHANGED <<starred, files>>
                         [] action = "exit" ->
                              /\ console' = prompt
                              /\ UNCHANGED <<effects, starred, files>>
    /\ UNCHANGED <<clock, writes, dropped, callVars, retryVars>>
    /\ UNCHANGED <<attempt, repo, enableAdvancedStats, lastCommitDays, issues,
                   hasContributing, hasCodeOfConductFile, contributorsCount,
                   prStats, analysis, requested, lastResponse, caught, repos,
                   repoIndex, results, argv, env, answers>>

NextAnalyze ==
    \/ AnalyzeMode
    \/ GetRepoByUrl
    \/ FetchLastCommit
    \/ GetGoodFirstIssues
    \/ HasContributingGuide
    \/ HasCodeOfConduct
    \/ GetContributorsCount
    \/ GetPRStats
    \/ GetIssueResponseStats
    \/ DisplayAnalysis
    \/ GitHubActions
    \/ SaveToBookmarks
    \/ Menu

SpecAnalyze == InitAnalyze /\ [][NextAnalyze]_vars

(***************************************************************************)
(* Search mode (index.ts 1051-1293): the prompt, searchRepos, the loop     *)
(* over the repositories found, then the filter, the sort, the display,    *)
(* the exports, the history and interactive mode.  answers is the record   *)
(* the prompt returns.  The exporters of utils/export.ts are seen by their *)
(* calls: effects holds [exporter, the list handed over, TRUE].            *)
(***************************************************************************)
AnswerInputs ==
    {[keywords |-> "cli", language |-> "Go", license |-> NULL, minStars |-> 100,
      minForks |-> 0, maxResults |-> 5, requireGoodFirstIssues |-> TRUE,
      showOnlyActive |-> FALSE, enableAdvancedStats |-> FALSE,
      saveResults |-> TRUE, interactiveMode |-> TRUE],
     [keywords |-> "cli", language |-> "Go", license |-> NULL, minStars |-> 100,
      minForks |-> 0, maxResults |-> 5, requireGoodFirstIssues |-> TRUE,
      showOnlyActive |-> TRUE, enableAdvancedStats |-> FALSE,
      saveResults |-> TRUE, interactiveMode |-> TRUE],
     [keywords |-> "web", language |-> "Rust", license |-> Some("mit"),
      minStars |-> 500, minForks |-> 10, maxResults |-> 10,
      requireGoodFirstIssues |-> FALSE,
      showOnlyActive |-> TRUE, enableAdvancedStats |-> TRUE,
      saveResults |-> FALSE, interactiveMode |-> FALSE]}

\* lines 1153-1161
SearchParamsOf(given) ==
    Obj(<<Member("keywords", Str(given.keywords)),
          Member("language", Str(given.language)),
          Member("minStars", Num(given.minStars)),
          Member("maxResults", Num(given.maxResults)),
          Member("license", IF given.license = NULL THEN Null
                            ELSE Str(given.license[1])),
          Member("minForks", IF given.minForks > 0 THEN Num(given.minForks)
                             ELSE Null),
          Member("requireGoodFirstIssues", Bool(given.requireGoodFirstIssues))>>)

\* if (value): null, 0, '' and false are not taken
Truthy(value) ==
    CASE value.type \in {"null", "undefined"} -> FALSE
      [] value.type = "number" -> value.v # 0
      [] value.type = "string" -> value.v # ""
      [] value.type = "boolean" -> value.v
      [] OTHER -> TRUE

\* lines 354-366, 370-375: the request of searchRepos, the query by its pieces
SearchRequest(searchParams) ==
    [q |-> <<Get(searchParams, "keywords").v,
             " language:", Get(searchParams, "language").v,
             " stars:>", Get(searchParams, "minStars").v>>
           \o (IF Truthy(Get(searchParams, "requireGoodFirstIssues"))
               THEN <<" good-first-issues:>1">> ELSE <<>>)
           \o (IF Truthy(Get(searchParams, "license"))
               THEN <<" license:", Get(searchParams, "license").v>> ELSE <<>>)
           \o (IF Truthy(Get(searchParams, "minForks"))
               THEN <<" forks:>", Get(searchParams, "minForks").v>> ELSE <<>>),
     sort |-> "updated",
     order |-> "desc",
     per_page |-> Get(searchParams, "maxResults").v]

\* retry.ts 59-61: withRetry throws a new Error for the error that
\* retryWithBackoff threw: it has a message and no status
RetryError(description, error) ==
    [status |-> 0,
     message |-> <<description, " failed after retries: ", error.status>>]

\* the answers to search.repos: the rate limit, a query that is refused, no
\* repository, two repositories in either order
SearchResponses ==
    {Failure(403), Failure(422), Success(<<>>)}
    \cup {Success(run) : run \in RunOfTwo}

\* the runs of gitpick followed: search mode, a template flag, two of them,
\* a template flag with -a
MainLaunches ==
    {[flags |-> {}, analyze |-> NULL],
     [flags |-> {"trending", "active"}, analyze |-> NULL],
     [flags |-> {"small"}, analyze |-> Some(<<"o", "/", "r">>)]}
    \cup {[flags |-> {TemplateNames[n]}, analyze |-> NULL] :
             n \in 1..Len(TemplateNames)}

\* the configuration file of a user who has switched the cache off
InitMain ==
    /\ argv \in MainLaunches
    /\ env \in {NULL, Some("ghp_token")}
    /\ answers = NULL
    /\ console = <<>>
    /\ effects = <<>>
    /\ starred = FALSE
    /\ pc = "main"
    /\ attempt = 1
    /\ repo = NULL
    /\ enableAdvancedStats = FALSE
    /\ lastCommitDays = NULL
    /\ issues = NULL
    /\ hasContributing = NULL
    /\ hasCodeOfConductFile = NULL
    /\ contributorsCount = NULL
    /\ prStats = NULL
    /\ analysis = NULL
    /\ requested = {}
    /\ lastResponse = NULL
    /\ caught = {}
    /\ repos = <<>>
    /\ repoIndex = 0
    /\ results = <<>>
    /\ call = NoCall
    /\ returned = <<>>
    /\ files = [path \in {CONFIG_FILE} |->
                   JSONStringify(Obj(<<Member("cacheEnabled", Bool(FALSE))>>))]
    /\ clock = 0
    /\ writes = [search \in {} |-> <<>>]
    /\ dropped = {}
    /\ RetryIdle

\* lines 1051-1175: no template flag and no -a; the configuration is loaded,
\* the token is looked at, the user answers the prompt
SearchMode ==
    /\ pc = "main"
    /\ TemplateFlags(argv.flags) = <<>>
    /\ argv.analyze = NULL
    /\ ~Get(loadUserConfig(files), "cacheEnabled").v
    /\ answers' \in {Some(given) : given \in AnswerInputs}
    /\ console' = console \o <<Line("GitPick", ""),
                               IF HasToken
                               THEN Line("GITHUB_TOKEN found. Rate limit: 5000 requests/hour", "")
                               ELSE Line("GITHUB_TOKEN not set. Rate limit: 60 requests/hour", "")>>
    /\ pc' = "searchRepos"
    /\ UNCHANGED <<analysisLocals, repos, repoIndex, results, argv, env, effects,
                   starred, otherVars>>

\* lines 1177-1192, 343-387, 1285-1292: one attempt of the search request.
\* When it fails for good, searchRepos catches the error of withRetry, prints
\* the hint when its status is 403 and throws it again; main catches it.
SearchRepos ==
    /\ pc = "searchRepos"
    /\ \E response \in SearchResponses :
          /\ effects' = Append(effects,
                               Effect("search.repos",
                                      SearchRequest(SearchParamsOf(answers[1])),
                                      response.ok))
          /\ IF ~response.ok /\ ~GivesUp(response)
             THEN /\ attempt' = attempt + 1
                  /\ lastResponse' = response
                  /\ UNCHANGED <<pc, repo, enableAdvancedStats, lastCommitDays,
                                 issues, hasContributing, hasCodeOfConductFile,
                                 contributorsCount, prStats, analysis, requested,
                                 caught, repos, repoIndex, console>>
             ELSE IF ~response.ok
             THEN /\ LET error == RetryError("Searching repositories", response)
                     IN  console' = console
                            \o (IF error.status = 403
                                THEN <<Line("Rate limit exceeded. Set GITHUB_TOKEN to increase limit", "")>>
                                ELSE <<>>)
                            \o <<Line("Search error", error)>>
                  /\ pc' = "exit"
                  /\ lastResponse' = response
                  /\ UNCHANGED <<attempt, repo, enableAdvancedStats, lastCommitDays,
                                 issues, hasContributing, hasCodeOfConductFile,
                                 contributorsCount, prStats, analysis, requested,
                                 caught, repos, repoIndex>>
             ELSE IF Len(response.data) = 0
             THEN /\ console' = Append(console, Line("No repositories found. Try changing search parameters.", ""))
                  /\ pc' = "exit"
                  /\ lastResponse' = response
                  /\ UNCHANGED <<attempt, repo, enableAdvancedStats, lastCommitDays,
                                 issues, hasContributing, hasCodeOfConductFile,
                                 contributorsCount, prStats, analysis, requested,
                                 caught, repos, repoIndex>>
             ELSE /\ repos' = response.data
                  /\ repoIndex' = 1
                  /\ enableAdvancedStats' = answers[1].enableAdvancedStats
                  /\ Enter(response.data[1])
                  /\ UNCHANGED console
    /\ UNCHANGED <<results, argv, env, answers, starred, otherVars>>

\* a < b for natural numbers in limbs
RECURSIVE BigLess(_, _)
BigLess(a, b) ==
    IF Len(a) # Len(b) THEN Len(a) < Len(b)
    ELSE IF a = <<>> THEN FALSE
    ELSE IF a[Len(a)] # b[Len(b)] THEN a[Len(a)] < b[Len(b)]
    ELSE BigLess(SubSeq(a, 1, Len(a) - 1), SubSeq(b, 1, Len(b) - 1))

\* x - y < 0 for doubles x, y >= 0
FLess(x, y) ==
    IF y.m = <<>> THEN FALSE
    ELSE IF x.m = <<>> THEN TRUE
    ELSE IF x.e # y.e THEN x.e < y.e
    ELSE BigLess(x.m, y.m)

\* line 1236: (b.activityScore || 0) - (a.activityScore || 0) < 0
ScoreOrder(a, b) == FLess(b.activityScore, a.activityScore)

\* item goes before the first of sorted that it is ordered before
InsertByScore(sorted, item) ==
    LET later == {k \in 1..Len(sorted) : ScoreOrder(item, sorted[k])}
        at == IF later = {} THEN Len(sorted) + 1
              ELSE CHOOSE k \in later : \A j \in later : k <= j
    IN  SubSeq(sorted, 1, at - 1) \o <<item>> \o SubSeq(sorted, at, Len(sorted))

\* line 1236: Array.prototype.sort, which is stable
RECURSIVE SortByScore(_)
SortByScore(items) ==
    IF items = <<>> THEN <<>>
    ELSE InsertByScore(SortByScore(SubSeq(items, 1, Len(items) - 1)),
                       items[Len(items)])

\* as KeepsResult, every repository with a known last commit kept
KeepsResult_Dated(showOnlyActive, result) ==
    ~showOnlyActive \/ result.lastActivity # NULL

\* lines 1220-1223
KeepsResult(showOnlyActive, result) == ~showOnlyActive \/ result.active

\* lines 1219-1236: filteredResults
FilteredResults(showOnlyActive, analysed) ==
    SortByScore(SelectSeq(analysed,
                          LAMBDA result : KeepsResult(showOnlyActive, result)))

\* lines 1264-1267
Exporters ==
    [json |-> "exportToJSON", markdown |-> "exportToMarkdown",
     csv |-> "exportToCSV", html |-> "exportToHTML"]

\* the formats chosen at the prompt of lines 1246-1259: the default, one, all
ExportChoices ==
    {<<"json", "markdown">>, <<"csv">>, <<"json", "markdown", "csv", "html">>}

\* userConfig.ts 56-70: the configuration file after addToHistory
addToHistory(dir, searchParams, now) ==
    LET config == loadUserConfig(dir)
        entry == Set(Spread(Obj(<<>>), searchParams), "timestamp", Num(now))
        history == Unshift(HistoryOf(config), entry)
    IN  WriteFile(dir, CONFIG_FILE,
                  JSONStringify(Set(config, "searchHistory",
                                    Arr(KeptHistory(history)))))

\* lines 1217-1283: the loop has ended; the results are filtered, sorted,
\* displayed, exported in the formats chosen and the search is recorded;
\* then interactive mode is entered, or main ends
ShowResults ==
    /\ pc = "analyzed"
    /\ answers # NULL
    /\ \E exportFormats \in ExportChoices,
          filteredResults \in {FilteredResults(answers[1].showOnlyActive, results)} :
          LET filtered == Len(results) - Len(filteredResults)
              formats == IF answers[1].saveResults THEN exportFormats ELSE <<>>
          IN  /\ console' = console
                     \o <<Line("Analysis complete!", Len(results))>>
                     \o (IF answers[1].showOnlyActive /\ filtered > 0
                         THEN <<Line("Filtered out inactive repositories", filtered)>>
                         ELSE <<>>)
                     \o [k \in 1..Len(filteredResults) |->
                            Line("displayRepo", filteredResults[k])]
                     \o (IF answers[1].interactiveMode
                         THEN <<Line("Entering interactive mode...", "")>>
                         ELSE <<Line("Done!", "")>>)
              /\ effects' = effects
                     \o [k \in 1..Len(formats) |->
                            Effect(Exporters[formats[k]], filteredResults, TRUE)]
    /\ files' = addToHistory(files, SearchParamsOf(answers[1]), clock)
    /\ pc' = IF answers[1].interactiveMode THEN "interactive" ELSE "exit"
    /\ UNCHANGED <<analysisLocals, repos, repoIndex, results, argv, env, answers,
                   starred, callVars, clock, writes, dropped, retryVars>>

MaxSelections == 1

\* the repositories selected in interactive mode so far
Selections ==
    Len(SelectSeq(console, LAMBDA line :
            line.text = "Select a repository to interact with"
                /\ line.about.chosen # 0))

RepoActions == {"open-repo", "open-issues", "details", "back"}

\* lines 633-693: one round of interactive mode: the results are offered
\* with 'Exit interactive mode', chosen here as 0; for a repository the
\* user chooses what to do with it
InteractiveMode ==
    /\ pc = "interactive"
    /\ \E filteredResults \in {FilteredResults(answers[1].showOnlyActive, results)} :
       \E action \in 0..Len(filteredResults), repoAction \in RepoActions :
          LET prompt == Line("Select a repository to interact with",
                             [choices |-> filteredResults, chosen |-> action])
          IN  IF action = 0
              THEN /\ console' = console \o <<prompt, Line("Done!", "")>>
                   /\ pc' = "exit"
                   /\ UNCHANGED effects
              ELSE /\ Selections < MaxSelections
                   /\ console' = console \o <<prompt>>
                          \o (IF repoAction = "details"
                              THEN <<Line("displayRepo", filteredResults[action])>>
                              ELSE <<>>)
                   /\ effects' = effects
                          \o (IF repoAction \in {"open-repo", "open-issues"}
                              THEN <<Effect("open", [page |-> repoAction,
                                                     of |-> filteredResults[action]],
                                            TRUE)>>
                              ELSE <<>>)
                   /\ UNCHANGED pc
    /\ UNCHANGED <<analysisLocals, repos, repoIndex, results, argv, env, answers,
                   starred, otherVars>>

NextMain ==
    \/ TemplateMode
    \/ SearchMode
    \/ SearchRepos
    \/ FetchLastCommit
    \/ GetGoodFirstIssues
    \/ HasContributingGuide
    \/ HasCodeOfConduct
    \/ GetContributorsCount
    \/ GetPRStats
    \/ GetIssueResponseStats
    \/ PushResult
    \/ ShowResults
    \/ InteractiveMode

SpecMain == InitMain /\ [][NextMain]_vars

(***************************************************************************)
(* getIssueResponseStats called on its own (utils/analytics.ts 136-195):   *)
(* the answers to issues.listForRepo are samples of up to MaxSample        *)
(* issues, per_page being 20.                                              *)
(***************************************************************************)
MaxSample == 20

\* n issues: the first r with a first comment t seconds after the issue,
\* the others without a comment
Sample(n, r, t) ==
    [k \in 1..n |->
        IF k <= r
        THEN [created_at |-> 0, comments |-> 1, listComments |-> Success(<<t>>)]
        ELSE [created_at |-> 0, comments |-> 0, listComments |-> Success(<<>>)]]

\* an issue whose comments are gone, one whose first comment cannot be fetched
Uncommented == [created_at |-> 0, comments |-> 3, listComments |-> Success(<<>>)]
Unfetched == [created_at |-> 0, comments |-> 1, listComments |-> Failure(500)]

IssueSamples ==
    UNION {{Sample(n, r, t) : r \in 0..n, t \in {0, SecPerHour}} :
              n \in 0..MaxSample}
    \cup {Append(Sample(n, n, SecPerHour), Uncommented) : n \in 0..(MaxSample - 1)}
    \cup {Append(Sample(n, n, SecPerHour), Unfetched) : n \in 0..(MaxSample - 1)}

SampleResponses == Failures \cup {Success(sample) : sample \in IssueSamples}

InitIssueStats ==
    InitCalls({Pending("getIssueResponseStats", [owner |-> "o", repo |-> "r"])})

\* analytics.ts 136-195: one attempt of the callback; when it succeeds its
\* statistics are returned, when it fails for good the catch block returns
AttemptIssueResponseStats ==
    /\ call.fn = "getIssueResponseStats"
    /\ call.ret = NULL
    /\ \E response \in SampleResponses :
       \E stats \in {IF response.ok THEN IssueStatsCallback(response.data)
                     ELSE Thrown(response.status)} :
          /\ lastResponse' = response
          /\ IF Threw(stats) /\ ~GivesUp(stats)
             THEN /\ attempt' = attempt + 1
                  /\ UNCHANGED <<call, returned, caught>>
             ELSE \E value \in {IF Threw(stats) THEN NoIssueStats ELSE stats} :
                     /\ call' = [call EXCEPT !.ret = Some(value)]
                     /\ returned' = Append(returned,
                                           [call EXCEPT !.ret = Some(value)])
                     /\ caught' = IF Threw(stats)
                                  THEN caught \cup {"getIssueResponseStats"}
                                  ELSE caught
                     /\ UNCHANGED attempt
    /\ UNCHANGED <<pc, repo, enableAdvancedStats, lastCommitDays, issues,
                   hasContributing, hasCodeOfConductFile, contributorsCount,
                   prStats, analysis, requested, runVars, cacheVars, retryVars>>

NextIssueStats == AttemptIssueResponseStats

SpecIssueStats == InitIssueStats /\ [][NextIssueStats]_vars

(***************************************************************************)
(* Properties                                                              *)
(***************************************************************************)
Returned(fn) == call.fn = fn /\ call.ret # NULL

\* the nearest integer to p / q, a tie going up (p >= 0, q > 0)
RoundHalfUp(p, q) == (2 * p + q) \div (2 * q)

\* round(10 * S) for the weighted sum S of the five sub-scores, in exact
\* arithmetic: 20 * S = 6 * activity + 4 * popularity + 3 * issueHealth
\*                      + 3 * contributing + 4 * volume
ExactTenths(repoData) ==
    LET g == Len(repoData.goodFirstIssues)
    IN  RoundHalfUp(6 * calculateActivityScore(repoData.lastActivity)
                    + 4 * calculateStarsScore(repoData.stars)
                    + 3 * calculateIssuesScore(repoData.openIssues, g)
                    + 3 * (IF repoData.hasContributing THEN 10 ELSE 0)
                    + 4 * Min(2 * g, 10),
                    2)

SpecExample ==
    [lastActivity |-> Some(5), stars |-> 200, openIssues |-> 5,
     goodFirstIssues |-> IssueList(3), hasContributing |-> TRUE]

\* C1: calculateOverallScore returns round(10 * S) / 10 for the weighted sum
\* S of the five sub-scores, and 8.4 for lastActivity 5, 200 stars, 5 open
\* issues, 3 good-first issues and a contributing guide.
C1_ScoreIsRoundedWeightedSum ==
    Returned("calculateOverallScore") =>
        /\ call.ret[1] = FDiv(ExactTenths(call.arg.repoData), 10)
        /\ call.arg.repoData = SpecExample => call.ret[1] = FDiv(84, 10)

\* the doubles 0.0, 0.1, 0.2, ..., 10.0
Tenths == {FDiv(n, 10) : n \in 0..100}

\* C2: the overall score lies in [0, 10] and is a multiple of 0.1: it is the
\* double n / 10 for an integer n between 0 and 100.
C2_ScoreRange ==
    Returned("calculateOverallScore") => call.ret[1] \in Tenths

C2_Witness ==
    /\ Returned("calculateOverallScore")
    /\ call.ret[1] = FFromInt(10)
    /\ Len(call.arg.repoData.goodFirstIssues) = MaxGoodFirst

\* C3: the activity recency score is 0 for null, 10 below 7 days, 8 below 30,
\* 5 below 90, 3 below 180 and 1 otherwise.
C3_ActivityScoreTable ==
    Returned("calculateActivityScore") =>
        LET d == call.arg.lastActivityDays
        IN  call.ret[1] = IF d = NULL THEN 0
                          ELSE IF d[1] < 7 THEN 10
                          ELSE IF d[1] < 30 THEN 8
                          ELSE IF d[1] < 90 THEN 5
                          ELSE IF d[1] < 180 THEN 3
                          ELSE 1

C3_Witness ==
    /\ Returned("calculateActivityScore")
    /\ call.arg.lastActivityDays = Some(30)
    /\ call.ret = Some(5)

\* C4: the popularity score is 1 below 10 stars, 3 below 50, 4 below 100,
\* 6 below 500, 7 below 1000, 8 below 5000, 9 below 10000 and 10 otherwise.
C4_StarsScoreTable ==
    Returned("calculateStarsScore") =>
        LET n == call.arg.stars
        IN  call.ret[1] = IF n < 10 THEN 1
                          ELSE IF n < 50 THEN 3
                          ELSE IF n < 100 THEN 4
                          ELSE IF n < 500 THEN 6
                          ELSE IF n < 1000 THEN 7
                          ELSE IF n < 5000 THEN 8
                          ELSE IF n < 10000 THEN 9
                          ELSE 10

C4_Witness ==
    /\ Returned("calculateStarsScore")
    /\ call.arg.stars = 10000
    /\ call.ret = Some(10)

\* C5: the popularity score is one of 1, 3, 4, 6, 7, 8, 9, 10 and never
\* decreases as the star count grows: no smaller count scores higher.  The
\* smaller counts compared are the predecessor of the count, which settles
\* every pair by transitivity, and one count of every band.
C5_StarsScoreMonotone ==
    Returned("calculateStarsScore") =>
        /\ call.ret[1] \in {1, 3, 4, 6, 7, 8, 9, 10}
        /\ \A a \in StarsInputs \cup {call.arg.stars - 1} :
              0 <= a /\ a <= call.arg.stars
                  => calculateStarsScore(a) <= call.ret[1]

C5_Witness ==
    /\ Returned("calculateStarsScore")
    /\ call.arg.stars = 500
    /\ call.ret = Some(7)
    /\ calculateStarsScore(499) = 6

\* C6: the issue-health score is min(min(2 * g, 5) + c, 10), c being 5 below
\* 10 open issues, 4 below 50, 3 below 100, 2 below 500 and 1 otherwise.
C6_IssuesScoreFormula ==
    Returned("calculateIssuesScore") =>
        LET o == call.arg.openIssues
            g == call.arg.goodFirstIssues
            c == IF o < 10 THEN 5
                 ELSE IF o < 50 THEN 4
                 ELSE IF o < 100 THEN 3
                 ELSE IF o < 500 THEN 2
                 ELSE 1
        IN  call.ret[1] = Min(Min(2 * g, 5) + c, 10)

C6_Witness ==
    /\ Returned("calculateIssuesScore")
    /\ call.arg = [openIssues |-> 500, goodFirstIssues |-> 3]
    /\ call.ret = Some(6)

\* the record exists once analyzeRepo has assembled it
Assembled == pc \in {"prStats", "issueStats", "done"}

\* C7: in every analysis record active holds exactly when lastActivity is
\* known and below 30: 29 is active, 30 is not, and null is not active and
\* has the activity recency score 0.
C7_ActiveIffRecent ==
    Assembled =>
        /\ analysis.active <=>
              (analysis.lastActivity # NULL /\ analysis.lastActivity[1] < 30)
        /\ analysis.lastActivity = Some(29) => analysis.active
        /\ analysis.lastActivity = Some(30) => ~analysis.active
        /\ analysis.lastActivity = NULL =>
              ~analysis.active /\ calculateActivityScore(analysis.lastActivity) = 0

C7_Witness ==
    /\ pc = "done"
    /\ analysis.lastActivity = Some(30)
    /\ ~analysis.active

\* C8: the record analyzeRepo returns carries prStats and issueResponseStats
\* exactly when enableAdvancedStats is set; when it is not, the fields are
\* absent and neither the pull requests nor the issue sample were requested.
C8_AdvancedStatsOnlyOnRequest ==
    pc = "done" =>
        /\ "prStats" \in DOMAIN analysis <=> enableAdvancedStats
        /\ "issueResponseStats" \in DOMAIN analysis <=> enableAdvancedStats
        /\ ~enableAdvancedStats =>
              requested \cap {"pulls.list", "issues.listForRepo",
                              "issues.listComments"} = {}

C8_Witness ==
    /\ pc = "done"
    /\ ~enableAdvancedStats
    /\ "prStats" \notin DOMAIN analysis
    /\ "issueResponseStats" \notin DOMAIN analysis
    /\ "repos.listContributors" \in requested

\* the merge durations of a sample, in seconds
RECURSIVE MergeSeconds(_)
MergeSeconds(prs) ==
    IF prs = <<>> THEN 0
    ELSE (IF Head(prs).merged_at = NULL THEN 0
          ELSE Head(prs).merged_at[1] - Head(prs).created_at)
         + MergeSeconds(Tail(prs))

\* C9: getPRStats counts the pull requests with a merge time; with none it
\* returns {null, 0}, otherwise mergedCount is their number and avgMergeTime
\* the mean of their merge durations in days, rounded to one decimal;
\* durations of 2 and 4 days give {3.0, 2}.
C9_PRStatsIsRoundedMean ==
    Returned("getPRStats") =>
        LET prs == call.arg.closedPRs
            merged == SelectSeq(prs, LAMBDA pr : pr.merged_at # NULL)
        IN  /\ call.ret[1] =
                  IF Len(merged) = 0
                  THEN [avgMergeTime |-> NULL, mergedCount |-> 0]
                  ELSE [avgMergeTime |->
                            Some(FDiv(RoundHalfUp(10 * MergeSeconds(prs),
                                                  SecPerDay * Len(merged)), 10)),
                        mergedCount |-> Len(merged)]
            /\ prs = <<[created_at |-> 0, merged_at |-> Some(2 * SecPerDay)],
                       [created_at |-> 0, merged_at |-> Some(4 * SecPerDay)]>>
                  => call.ret[1] = [avgMergeTime |-> Some(FFromInt(3)),
                                    mergedCount |-> 2]

\* the response times of a sample, in seconds
RECURSIVE ResponseSeconds(_)
ResponseSeconds(is) ==
    IF is = <<>> THEN 0
    ELSE (IF Head(is).comments > 0 /\ Len(Head(is).listComments.data) > 0
          THEN Head(is).listComments.data[1] - Head(is).created_at ELSE 0)
         + ResponseSeconds(Tail(is))

\* C10: getIssueResponseStats collects a response time for every issue with
\* comments and a first comment; with none it returns {null, 0}, otherwise
\* avgResponseTime is their mean in hours rounded to one decimal and
\* responseRate is round(responses / N * 100), N counting every issue of the
\* sample; 4 issues with responses of 1 h and 3 h give {2.0, 50}.
C10_IssueStatsIsRoundedMean ==
    Returned("getIssueResponseStats") /\ ~Threw(call.ret[1]) =>
        LET is == call.arg.recentIssues
            responded == SelectSeq(is, LAMBDA i :
                             i.comments > 0 /\ Len(i.listComments.data) > 0)
        IN  call.ret[1] =
                IF Len(responded) = 0
                THEN [avgResponseTime |-> NULL, responseRate |-> 0]
                ELSE [avgResponseTime |->
                          Some(FDiv(RoundHalfUp(10 * ResponseSeconds(is),
                                                SecPerHour * Len(responded)), 10)),
                      responseRate |-> RoundHalfUp(100 * Len(responded), Len(is))]

\* C11: when the closed pull request list cannot be fetched, getPRStats
\* returns {avgMergeTime: null, mergedCount: 0}, and when the issue list
\* cannot be fetched, getIssueResponseStats returns {avgResponseTime: null,
\* responseRate: 0}; the error ends in the catch block of the function and
\* analyzeRepo goes on to its next statement.
C11_FailedFetchGivesEmptyStats ==
    /\ "getPRStats" \in caught =>
          /\ pc \in {"issueStats", "done", "analyzed"}
          /\ prStats = [avgMergeTime |-> NULL, mergedCount |-> 0]
    /\ pc = "issueStats" /\ attempt = 1 /\ ~lastResponse.ok =>
          "getPRStats" \in caught
    /\ pc = "done" /\ enableAdvancedStats =>
          /\ analysis.prStats = prStats
          /\ ~lastResponse.ok =>
                /\ "getIssueResponseStats" \in caught
                /\ analysis.issueResponseStats =
                      [avgResponseTime |-> NULL, responseRate |-> 0]

C11_Witness ==
    /\ pc = "done"
    /\ {"getPRStats", "getIssueResponseStats"} \subseteq caught
    /\ ~lastResponse.ok /\ lastResponse.status = 500
    /\ analysis.prStats = [avgMergeTime |-> NULL, mergedCount |-> 0]
    /\ analysis.issueResponseStats =
          [avgResponseTime |-> NULL, responseRate |-> 0]

\* the sample with every failed first-comment request read as an empty page
AsNoResponse(recentIssues) ==
    [k \in 1..Len(recentIssues) |->
        IF recentIssues[k].listComments.ok THEN recentIssues[k]
        ELSE [recentIssues[k] EXCEPT !.listComments = Success(<<>>)]]

\* C12: in getIssueResponseStats an issue with comments whose first-comment
\* request fails counts as an issue without response: it adds no response
\* time, it stays in the denominator of the response rate, and the response
\* times of the other issues of the sample are aggregated into the result.
C12_FailedCommentIsNoResponse ==
    pc = "done" /\ enableAdvancedStats /\ lastResponse.ok =>
        analysis.issueResponseStats =
            IssueStatsCallback(AsNoResponse(lastResponse.data))

\* C13: getContributorsCount returns "10+" when the page of one contributor
\* is not empty, "0" when it is empty and null when the request fails, and
\* nothing else.
C13_ContributorsCountValues ==
    /\ contributorsCount \in {NULL, Some("10+"), Some("0")}
    /\ (pc = "prStats" /\ attempt = 1) \/ (pc = "done" /\ ~enableAdvancedStats) =>
          /\ ~lastResponse.ok => contributorsCount = NULL
          /\ lastResponse.ok /\ Len(lastResponse.data) >= 1 =>
                contributorsCount = Some("10+")
          /\ lastResponse.ok /\ Len(lastResponse.data) = 0 =>
                contributorsCount = Some("0")
          /\ analysis.contributorsCount = contributorsCount

C13_Witness ==
    /\ pc = "done" /\ ~enableAdvancedStats
    /\ lastResponse = Success(<<1>>)
    /\ analysis.contributorsCount = Some("10+")

AllCatchBlocks ==
    {"analyzeRepo", "getGoodFirstIssues", "hasContributingGuide",
     "hasCodeOfConduct", "getContributorsCount", "getPRStats",
     "getIssueResponseStats"}

\* the record analyzeRepo returns shows a failed request as missing data only
MissingData ==
    /\ analysis.activityScore \in Tenths
    /\ caught \subseteq AllCatchBlocks
    /\ "analyzeRepo" \in caught => analysis.lastActivity = NULL
    /\ "getGoodFirstIssues" \in caught => analysis.goodFirstIssues = <<>>
    /\ "hasContributingGuide" \in caught => analysis.hasContributing = FALSE
    /\ "hasCodeOfConduct" \in caught => analysis.hasCodeOfConduct = FALSE
    /\ "getContributorsCount" \in caught => analysis.contributorsCount = NULL
    /\ "getPRStats" \in caught =>
          analysis.prStats = [avgMergeTime |-> NULL, mergedCount |-> 0]
    /\ "getIssueResponseStats" \in caught =>
          analysis.issueResponseStats =
              [avgResponseTime |-> NULL, responseRate |-> 0]

\* the statements of analyzeRepo in the order they are reached
Statements ==
    <<"listCommits", "goodFirstIssues", "contributing", "codeOfConduct",
      "contributors", "prStats", "issueStats", "done", "analyzed">>

\* how far the run has come: repositories, then statements, then attempts
Progress ==
    LET stage == CHOOSE k \in 1..Len(Statements) : Statements[k] = pc
    IN  (repoIndex * (Len(Statements) + 1) + stage)
            * (DEFAULT_CONFIG.retryAttempts + 1) + attempt

\* C14: whatever requests of analyzeRepo succeed or fail, the function
\* returns a record with a valid activityScore that shows each failure as
\* missing data (null, false, an empty list or null/zero statistics), and
\* it does not end otherwise: it is at one of its statements, no attempt is
\* made beyond the last one, and every step takes it further towards its
\* return.
C14_AnalyzeRepoAlwaysReturns ==
    /\ [](pc = "done" => MissingData)
    /\ [](\E k \in 1..Len(Statements) : Statements[k] = pc)
    /\ [](attempt \in 1..DEFAULT_CONFIG.retryAttempts)
    /\ [][Progress' > Progress]_<<pc, attempt, repoIndex>>

C14_Witness ==
    /\ pc = "done"
    /\ caught = AllCatchBlocks
    /\ MissingData

ScoreInputs(record) ==
    [lastActivity |-> record.lastActivity, stars |-> record.stars,
     openIssues |-> record.openIssues,
     goodFirstIssues |-> IssueList(Len(record.goodFirstIssues)),
     hasContributing |-> record.hasContributing]

\* C16: the overall score does not depend on the advanced data: the record
\* analyzeRepo returns has the valid score of its lastActivity, stars,
\* openIssues, number of good-first issues and hasContributing, which is
\* the score of every record that agrees on these, whether prStats and
\* issueResponseStats are present, absent, or null/zero after a failure.
C16_ScoreIgnoresAdvancedData ==
    pc = "done" =>
        /\ analysis.activityScore = calculateOverallScore(ScoreInputs(analysis))
        /\ analysis.activityScore \in Tenths

C16_Witness ==
    /\ pc = "done"
    /\ "getPRStats" \in caught
    /\ "getIssueResponseStats" \notin caught
    /\ analysis.prStats = [avgMergeTime |-> NULL, mergedCount |-> 0]
    /\ analysis.issueResponseStats.avgResponseTime # NULL
    /\ analysis.activityScore = calculateOverallScore(ScoreInputs(analysis))

\* the requests analyzeRepo makes for one repository
Fetches ==
    {"repos.listCommits", "issues.listForRepo(labels)",
     "repos.getContent(CONTRIBUTING.md)",
     "repos.getContent(CODE_OF_CONDUCT.md)", "repos.listContributors"}
    \cup (IF enableAdvancedStats THEN {"pulls.list", "issues.listForRepo"}
          ELSE {})

\* C17: in a run over the repositories r1..rn the events are in one order:
\* the score of a repository is computed only when every request for it has
\* been made and answered (commit, good-first issues, contributing guide,
\* code of conduct, contributors, and the pull request and issue samples
\* when requested), and a request for r(i+1) is made only when the scores of
\* r1..ri have been computed and their records pushed.
C17_OneRepositoryAtATime ==
    /\ pc \in {"prStats", "issueStats"} => "activityScore" \notin DOMAIN analysis
    /\ pc = "done" =>
          "activityScore" \in DOMAIN analysis /\ Fetches \subseteq requested
    /\ Len(results) = repoIndex - 1
    /\ \A k \in 1..Len(results) : "activityScore" \in DOMAIN results[k]
    /\ pc # "analyzed" => repoIndex <= Len(repos)

C17_Witness ==
    /\ Len(repos) = 2 /\ repoIndex = 2
    /\ pc = "done"
    /\ enableAdvancedStats
    /\ Fetches \subseteq requested
    /\ "activityScore" \in DOMAIN results[1]

\* the whole days from a time to now
WholeDays(date) == (Now - date) \div SecPerDay

\* C18: in every record of analyzeRepo lastActivity is null exactly when the
\* commit request fails or returns no commit; otherwise it is a
\* non-negative integer, the whole number of days between the author
\* timestamp of the latest commit and now.
C18_LastActivityNonNegative ==
    /\ pc = "goodFirstIssues" /\ attempt = 1 =>
          /\ lastCommitDays = NULL <=>
                (~lastResponse.ok \/ Len(lastResponse.data) = 0)
          /\ lastCommitDays # NULL =>
                /\ lastCommitDays[1] >= 0
                /\ LET date == lastResponse.data[1].date
                   IN  date # NULL => lastCommitDays[1] = WholeDays(date[1])
    /\ pc = "done" =>
          /\ analysis.lastActivity = lastCommitDays
          /\ analysis.lastActivity # NULL => analysis.lastActivity[1] >= 0

\* C19: getCache(params, ttl) returns the data of the latest setCache for
\* the same search exactly when the entry exists (the search has been stored
\* and no read has since found the entry expired) and its age, now minus
\* the stored timestamp, is below ttl, one hour by default; otherwise it
\* returns null.  The read that finds the entry expired deletes its file,
\* so that a later read without a new write returns null as well.
C19_CacheServesFreshEntries ==
    /\ DEFAULT_CONFIG.cacheTTL = 60 * 60 * 1000
    /\ call.fn = "getCache" =>
          LET search == Search(call.arg.params)
              live == /\ search \in DOMAIN writes
                      /\ search \notin dropped
                      /\ clock - writes[search].at < call.arg.ttl
          IN  call.ret = IF live THEN Some(writes[search].data) ELSE NULL
    /\ \A params \in ParamInputs :
          generateCacheKey(params) \in DOMAIN files
              <=> (Search(params) \in DOMAIN writes /\ Search(params) \notin dropped)

C19_Witness ==
    /\ call.fn = "getCache"
    /\ call.ret = NULL
    /\ Search(call.arg.params) \in dropped
    /\ call.arg.ttl = DEFAULT_CONFIG.cacheTTL
    /\ clock - writes[Search(call.arg.params)].at = 2 * ClockStep
    /\ generateCacheKey(call.arg.params) \notin DOMAIN files

\* C20: retryWithBackoff(fn, maxAttempts, initialDelay) with maxAttempts >= 1
\* calls fn at most maxAttempts times; it calls fn no more once a call has
\* succeeded and returns the value of that call; when every call fails with
\* an error that is retried it calls fn exactly maxAttempts times and
\* throws the last error.
C20_RetryBounds ==
    /\ [](maxAttempts >= 1 =>
            /\ invocations <= maxAttempts
            /\ settled # NULL /\ settled[1].status = "fulfilled" =>
                  /\ lastResponse.ok
                  /\ settled[1].value = lastResponse.data
            /\ settled # NULL /\ settled[1].status = "rejected" =>
                  /\ ~lastResponse.ok
                  /\ settled[1].reason = Some(lastResponse)
                  /\ lastResponse.status \notin NON_RETRYABLE_STATUS_CODES =>
                        invocations = maxAttempts)
    /\ [][settled # NULL => invocations' = invocations]_invocations

C20_Witness ==
    /\ maxAttempts = 3
    /\ invocations = 3
    /\ settled # NULL
    /\ settled[1].status = "rejected"
    /\ settled[1].reason = Some(Failure(500))
    /\ Len(waits) = 2

\* C21: the backoff of retryWithBackoff is exponential: the wait after the
\* k-th failed attempt is at least initialDelay * 2^(k-1) and at most 1.3
\* times that; a wait is started only by a failed attempt that is not the
\* last and whose error is retried, so that every attempt but the first has
\* its wait before it and no wait follows a success or the last attempt.
C21_ExponentialBackoff ==
    /\ [](\A k \in 1..Len(waits) :
            /\ waits[k] >= initialDelay * 2 ^ (k - 1)
            /\ 10 * waits[k] <= 13 * initialDelay * 2 ^ (k - 1))
    /\ [](maxAttempts >= 1 =>
            /\ settled = NULL => Len(waits) = invocations
            /\ settled # NULL => Len(waits) = invocations - 1)
    /\ [][Len(waits') = Len(waits) + 1 =>
            /\ ~lastResponse'.ok
            /\ attempt < maxAttempts
            /\ attempt' = attempt + 1]_waits

C21_Witness ==
    /\ maxAttempts = 4
    /\ initialDelay = DEFAULT_CONFIG.retryDelay
    /\ waits = <<1000, 2594, 4000>>
    /\ settled # NULL
    /\ settled[1].status = "fulfilled"

\* C26: an attempt of retryWithBackoff that fails with status 401, 404 or
\* 422 ends the call at once: the promise is rejected with that error in
\* the same step, no wait is started, and fn is called no more and no wait
\* is made afterwards, however many attempts remain.
C26_NonRetryableThrownAtOnce ==
    /\ [][invocations' = invocations + 1 /\ ~lastResponse'.ok
             /\ lastResponse'.status \in {401, 404, 422} =>
            /\ settled' = Some([status |-> "rejected",
                                reason |-> Some(lastResponse')])
            /\ waits' = waits]_<<invocations, settled>>
    /\ [][settled # NULL =>
            invocations' = invocations /\ waits' = waits]_<<invocations, waits>>

C26_Witness ==
    /\ maxAttempts = 4
    /\ invocations = 2
    /\ Len(waits) = 1
    /\ settled # NULL
    /\ settled[1].status = "rejected"
    /\ settled[1].reason = Some(Failure(422))

\* the search history in the configuration file
StoredHistory == HistoryOf(loadUserConfig(files))

\* the entry a recorded search is stored as
EntryOf(search) == Set(search.arg, "timestamp", Num(search.at))

\* C22: after any sequence of addToHistory calls the stored history holds
\* at most 10 entries, newest first, and they are the last min(n, 10) of
\* the n searches recorded, each with the time it was recorded at; older
\* ones are dropped; getSearchHistory returns that list.
C22_HistoryKeepsLastTen ==
    \A history \in {StoredHistory}, n \in {Len(returned)} :
        /\ Len(history) <= 10
        /\ Len(history) = IF n < 10 THEN n ELSE 10
        /\ \A k \in 1..Len(history) :
              history[k] = EntryOf(returned[n - k + 1])
        /\ \A k \in 1..(Len(history) - 1) :
              Get(history[k], "timestamp").v
                  >= Get(history[k + 1], "timestamp").v
        /\ call.fn = "getSearchHistory" => call.ret = Some(Arr(history))

C22_Witness ==
    /\ Len(returned) = 11
    /\ call.fn = "getSearchHistory"
    /\ returned[1].arg # returned[2].arg
    /\ \E history \in {StoredHistory} :
          /\ Len(history) = 10
          /\ history[1] = EntryOf(returned[11])
          /\ history[10] = EntryOf(returned[2])

\* the fullName of each stored bookmark, in the order of the file
StoredNames(dir) ==
    LET bookmarks == loadBookmarks(dir)
    IN  [n \in 1..Len(bookmarks) |-> Get(bookmarks[n], "fullName").v]

\* C29: from an empty store, after any addBookmark and removeBookmark calls
\* no two stored bookmarks have the same fullName; addBookmark of a
\* repository that is bookmarked is rejected with 'Repository already
\* bookmarked' and leaves the stored bookmarks as they are; removeBookmark
\* takes away the bookmark of the given fullName and leaves every other
\* bookmark as it is.
C29_BookmarksAreUnique ==
    /\ [](\A names \in {StoredNames(files)} :
            \A a, b \in 1..Len(names) : names[a] = names[b] => a = b)
    /\ [][\A before \in {loadBookmarks(files)}, after \in {loadBookmarks(files')} :
            /\ call'.fn = "addBookmark"
               /\ (\E n \in 1..Len(before) :
                      Get(before[n], "fullName") = Get(call'.arg.analysis, "name"))
               => /\ call'.ret = Some(Rejected("Repository already bookmarked"))
                  /\ after = before
            /\ call'.fn = "removeBookmark" =>
                  /\ call'.ret = Some(Resolved)
                  /\ after = SelectSeq(before, LAMBDA b :
                                 Get(b, "fullName").v # call'.arg)]_vars

C29_Witness ==
    /\ StoredNames(files) = <<<<"a", "/", "x">>, <<"b", "/", "x">>>>
    /\ call.fn = "addBookmark"
    /\ Get(call.arg.analysis, "name").v = <<"b", "/", "x">>
    /\ call.ret = Some(Rejected("Repository already bookmarked"))

\* what has been printed, by its text
Printed(text) == \E k \in 1..Len(console) : console[k].text = text

\* C25: in analyze mode with --fork, --star, --watch or --clone given, a
\* fork, star, watch or clone is requested only when GITHUB_TOKEN is set
\* (and not empty); when it is not, the analysis having been made, the
\* result is displayed, then the warning that the token is required is
\* printed, and nothing is requested.
C25_NoActionWithoutToken ==
    argv.flags \cap GitHubActionFlags # {} =>
        /\ effects # <<>> => HasToken
        /\ ~HasToken /\ pc \in {"saveBookmark", "menu", "exit"} /\ analysis # NULL =>
              /\ effects = <<>>
              /\ \E k, w \in 1..Len(console) :
                    /\ k < w
                    /\ console[k].text = "displayRepo"
                    /\ console[k].about = analysis
                    /\ console[w].text = "GITHUB_TOKEN required for GitHub actions"

C25_Witness ==
    /\ pc = "exit"
    /\ argv.flags = {"fork", "star", "watch", "clone"}
    /\ env = NULL
    /\ effects = <<>>
    /\ Printed("displayRepo")
    /\ Printed("GITHUB_TOKEN required for GitHub actions")

\* C28: in the menu of analyze mode the star entry toggles the star: chosen
\* when the repository is starred and the entry reads 'Unstar repository',
\* a request that succeeds takes the star away; chosen when the repository
\* is not starred and the entry reads 'Star repository', it sets the star.
C28_StarEntryToggles ==
    [][pc = "menu" /\ Len(effects') = Len(effects) + 1
          /\ effects'[Len(effects')].action \in {"star", "unstar"}
          /\ effects'[Len(effects')].ok =>
        LET prompt == console'[Len(console') - 1].about
            label == prompt.choices[prompt.chosen].name
        IN  /\ starred /\ label = "Unstar repository" => ~starred'
            /\ ~starred /\ label = "Star repository" => starred']_vars

\* C24: a run of gitpick with a quick-template flag searches with the
\* parameters of the template and analyses the repositories found: when
\* the run has ended, a search request with the keywords of the template
\* has been made.
C24_TemplateRunsSearch ==
    pc = "exit" /\ argv.flags \cap DOMAIN QUICK_TEMPLATES # {} =>
        \E k \in 1..Len(effects) :
            /\ effects[k].action = "search.repos"
            /\ effects[k].target.q[1] =
                  QUICK_TEMPLATES[TemplateFlags(argv.flags)[1]].params.keywords

\* C27: when the search request of searchRepos fails for good with status
\* 403, the rate-limit hint is printed and the error is thrown on to main,
\* which reports the search error.
C27_RateLimitHint ==
    [][pc = "searchRepos" /\ pc' = "exit" /\ ~lastResponse'.ok
          /\ lastResponse'.status = 403 =>
        \E h, e \in 1..Len(console') :
            /\ h < e
            /\ console'[h].text
                  = "Rate limit exceeded. Set GITHUB_TOKEN to increase limit"
            /\ console'[e].text = "Search error"]_vars

\* how often item occurs in items
Count(items, item) == Cardinality({k \in 1..Len(items) : items[k] = item})

\* a and b hold the same items, each as often
SameItems(a, b) ==
    /\ Len(a) = Len(b)
    /\ \A k \in 1..Len(a) : Count(a, a[k]) = Count(b, a[k])

\* the lines main has printed before interactive mode or its end
ResultLines ==
    LET ends == {k \in 1..Len(console) :
                    console[k].text \in {"Entering interactive mode...", "Done!"}}
    IN  SubSeq(console, 1, CHOOSE k \in ends : \A j \in ends : k <= j)

\* the repositories a sequence of lines displays
Displayed(lines) ==
    LET shown == SelectSeq(lines, LAMBDA line : line.text = "displayRepo")
    IN  [k \in 1..Len(shown) |-> shown[k].about]

\* C23: in search mode, once the analysis is complete, the repositories
\* displayed, the list handed to every exporter and the list offered at
\* every prompt of interactive mode hold the same repositories: with 'show
\* only active' those analysed ones that are active, each of them and no
\* other, and without it every analysed one; what is selected and shown in
\* detail in interactive mode is one of them, and with 'save results' the
\* list is exported.
C23_OnlyActiveShown ==
    pc \in {"interactive", "exit"} /\ Printed("Analysis complete!") =>
        LET expected == SelectSeq(results, LAMBDA result :
                            answers[1].showOnlyActive => result.active)
        IN  /\ SameItems(Displayed(ResultLines), expected)
            /\ \A k \in 1..Len(effects) :
                  /\ effects[k].action \in {"exportToJSON", "exportToMarkdown",
                                            "exportToCSV", "exportToHTML"}
                        => SameItems(effects[k].target, expected)
                  /\ effects[k].action = "open"
                        => Count(expected, effects[k].target.of) > 0
            /\ answers[1].saveResults =>
                  \E k \in 1..Len(effects) : effects[k].action = "exportToJSON"
                                                  \/ effects[k].action = "exportToCSV"
            /\ \A k \in 1..Len(console) :
                  /\ console[k].text = "Select a repository to interact with"
                        => SameItems(console[k].about.choices, expected)
                  /\ console[k].text = "displayRepo"
                        => Count(expected, console[k].about) > 0
            /\ ~answers[1].showOnlyActive => Len(expected) = Len(results)

C23_Witness ==
    /\ pc = "exit"
    /\ answers # NULL
    /\ answers[1].showOnlyActive
    /\ Len(results) = 2
    /\ ~results[1].active /\ results[1].lastActivity = Some(30)
    /\ results[2].active
    /\ Displayed(ResultLines) = <<results[2]>>
    /\ \E k \in 1..Len(effects) :
          effects[k] = Effect("exportToJSON", <<results[2]>>, TRUE)
    /\ \E k \in 1..Len(console) :
          /\ console[k].text = "Select a repository to interact with"
          /\ console[k].about = [choices |-> <<results[2]>>, chosen |-> 1]

\* C30: for a sample of at most 20 issues, the result of
\* getIssueResponseStats has a responseRate that is an integer from 0 to
\* 100, and the responseRate is 0 exactly when avgResponseTime is null;
\* that holds when the statistics are computed and when the catch block
\* returns, which gives {null, 0}.
C30_ResponseRateRange ==
    /\ call.fn = "getIssueResponseStats"
    /\ call.ret # NULL
    /\ Len(lastResponse.data) <= 20
    => /\ call.ret[1].responseRate \in 0..100
       /\ call.ret[1].responseRate = 0 <=> call.ret[1].avgResponseTime = NULL
       /\ "getIssueResponseStats" \in caught =>
             /\ call.ret[1].avgResponseTime = NULL
             /\ call.ret[1].responseRate = 0
       /\ lastResponse.ok /\ "getIssueResponseStats" \notin caught =>
             (call.ret[1].avgResponseTime = NULL <=>
                 \A k \in 1..Len(lastResponse.data) :
                     \/ lastResponse.data[k].comments = 0
                     \/ lastResponse.data[k].listComments.data = <<>>)

C30_Witness ==
    /\ call.fn = "getIssueResponseStats"
    /\ call.ret # NULL
    /\ lastResponse.ok
    /\ Len(lastResponse.data) = 20
    /\ call.ret[1].responseRate = 5
    /\ call.ret[1].avgResponseTime = Some(FZero)

====
